---- MODULE Spec2Model ----
(***************************************************************************)
(* Adaptive polling scheduler and state-diffing store of bf1942-ingest.    *)
(*                                                                         *)
(* Time is an integer number of seconds.  Python values are modelled as    *)
(* follows: a dict is a function whose DOMAIN is the set of keys present,  *)
(* None is the reserved string NONE, a nullable timestamp is <<>> (NULL)   *)
(* or <<t>>, and the heterogeneous server_id exclusion set holds tagged    *)
(* values PyStr(s) and PyTuple(ip, port).                                  *)
(***************************************************************************)
EXTENDS Integers, Sequences, FiniteSets, TLC

VARIABLES
    now,            \* wall clock: time.time() / datetime.now(), whole seconds
    phase,          \* position of Scheduler.run: "seed_refresh", "seed_load", "running"
    known_servers,  \* Scheduler._known_servers: set of "ip:port" strings
    queue,          \* Scheduler._queue: entries <<next_poll_time, ip, port>> with their multiplicity
    parked_servers, \* Scheduler._parked_servers: set of <<ip, port>>
    exclusions,     \* Scheduler._exclusions
    pc,             \* per worker: "get", "sleep", "query", "ingest"
    held,           \* per worker: the dequeued entry, <<>> when none
    requeue_at,     \* per worker: now + delay computed after the probe
    refresh_at,     \* wake-up time of _update_exclusions_cache's sleep(300)
    poll_at,        \* wake-up time of _master_list_poller's sleep
    backoff_delay,  \* _master_list_poller's local backoff_delay
    released,       \* history: the servers the most recent reload released
    servers,        \* table servers: <<ip, port>> -> row
    snapshots,      \* table server_snapshots: per server, rows in insertion order
    sessions,       \* table player_sessions: per server, rows in insertion order
    unique_maps,    \* table unique_maps
    last,           \* history: the most recent ingestion (what it was given, what it did)
    ops,            \* history: number of steps driven directly at the store
    task_state,     \* per task of Scheduler.run: "pending", "raised", "cancelling", "cancelled"
    closed,         \* the resources closed so far, in the order of their closing
    query_call,     \* history: the last call of query_server (its attempts and outcome)
    fetch_call,     \* history: the last call of fetch_servers (the response and the result)
    refresh_call,   \* history: the last call of _refresh_exclusions by the cache loop
    checked_excl,   \* history, per worker: the exclusions its last dequeue check read
    queried_excluded \* history, per address: queries completed while it was excluded by
                    \* server_id, since the reload that excluded it

vars == <<now, phase, known_servers, queue, parked_servers, exclusions, pc, held,
          requeue_at, refresh_at, poll_at, backoff_delay, released, servers, snapshots,
          sessions, unique_maps, last, ops, task_state, closed,
          query_call, fetch_call, refresh_call, checked_excl,
          queried_excluded>>

schedVars == <<phase, known_servers, queue, parked_servers, pc, held, requeue_at,
               refresh_at, poll_at, backoff_delay>>

storeVars == <<servers, snapshots, sessions, unique_maps>>

lifeVars == <<task_state, closed>>

callVars == <<query_call, fetch_call, refresh_call>>

netVars == <<callVars, checked_excl, queried_excluded>>

(***************************************************************************)
(* Settings (engine/config.py) and literals of the code.                   *)
(***************************************************************************)
MASTER_LIST_POLL_INTERVAL_S == 60
MASTER_LIST_MAX_BACKOFF_S == 300
POLL_INTERVAL_ACTIVE_S == 20
POLL_INTERVAL_EMPTY_S == 180
POLL_INTERVAL_OFFLINE_S == 900
OFFLINE_FAILURE_THRESHOLD == 3
EXCLUSIONS_REFRESH_S == 300

(***************************************************************************)
(* Bounds of the model.                                                    *)
(***************************************************************************)
WORKER_COUNT == 2   \* settings.WORKER_COUNT is 200; two workers already interleave
MaxTime == 30       \* the clock stops here: past the startup reloads and the first re-probes (4 s, 20 s)
MaxProbes == 3      \* probes the workers of the scheduler complete
MaxOps == 6         \* steps (ingestions, reloads) driven directly at the store
MaxRunProbes == 2   \* store calls made before the run is ended
MaxDelayProbes == 2 \* probes completed when the delay policy is driven with its inputs

Workers == 1..WORKER_COUNT

\* name=f"worker-{i}" for i in range(self._worker_count)
WorkerTask(w) == "worker-" \o ToString(w - 1)

\* the tasks Scheduler.run creates
SingletonTasks == {"master-list-poller", "refresh-materialized-views", "exclusions-cache"}
TaskNames == SingletonTasks \cup {WorkerTask(w) : w \in Workers}

NONE == "<None>"
NULL == <<>>

\* no call made yet
NoCall == [made |-> FALSE]

(***************************************************************************)
(* Addresses.                                                              *)
(***************************************************************************)
Addrs == {<<"10.0.0.1", 14567>>, <<"10.0.0.2", 23000>>}

\* f"{ip}:{port}"
ServerIdentifier(ip, port) == ip \o ":" \o ToString(port)

\* ip, port_str = server_id.split(":"); port = int(port_str)
SplitServerId(server_id) ==
    CHOOSE a \in Addrs : ServerIdentifier(a[1], a[2]) = server_id

PyStr(s) == [tag |-> "str", s |-> s]
PyTuple(ip, port) == [tag |-> "tuple", ip |-> ip, port |-> port]

(***************************************************************************)
(* Python helpers.                                                         *)
(***************************************************************************)
\* dict.get(key, default)
Get(d, key, default) == IF key \in DOMAIN d THEN d[key] ELSE default

\* int(value) for the strings it accepts; every other string raises ValueError
IntLiteral ==
    ("0" :> 0) @@ ("1" :> 1) @@ ("5" :> 5) @@ ("7" :> 7) @@ ("16" :> 16) @@
    ("24" :> 24) @@ ("25" :> 25) @@ ("600" :> 600)

\* data_processor._coerce_int
CoerceInt(value, default) ==
    IF value = NONE \/ value = "" THEN default
    ELSE IF value \in DOMAIN IntLiteral THEN IntLiteral[value]
    ELSE default

\* str.lower() on the strings of the model
LowerTable ==
    ("Alice" :> "alice") @@ ("ALICE" :> "alice") @@ ("Bob" :> "bob") @@
    ("Wake" :> "wake") @@ ("N/A" :> "n/a")

Lower(s) == IF s \in DOMAIN LowerTable THEN LowerTable[s] ELSE s

Max(S) == CHOOSE x \in S : \A y \in S : y <= x
Min(S) == CHOOSE x \in S : \A y \in S : x <= y

RECURSIVE SetToSeq(_)
SetToSeq(S) ==
    IF S = {} THEN <<>>
    ELSE LET x == CHOOSE y \in S : TRUE IN <<x>> \o SetToSeq(S \ {x})

(***************************************************************************)
(* Exclusions (the table `exclusions` and the scheduler's cache of it).    *)
(***************************************************************************)
\* Rows of SELECT type, value, server_ip, server_port FROM exclusions.  server_ip and
\* server_port are the generated columns: split_part(value, ':', 1) and the second
\* part as an integer when it is all digits, else NULL.
RowServer == [type |-> "server_id", value |-> "10.0.0.1:14567",
              server_ip |-> "10.0.0.1", server_port |-> <<14567>>]
RowGametype == [type |-> "gametype", value |-> "coop", server_ip |-> "",
                server_port |-> NULL]
RowPlayer == [type |-> "player_name", value |-> "Bob", server_ip |-> "",
              server_port |-> NULL]

\* The contents of the table that a reload may find.
ExclusionTables == {{}, {RowServer}, {RowGametype}, {RowPlayer}}

EmptyExclusions == [gametype |-> {}, player_name |-> {}, server_id |-> {}]

\* A reload that updates the sets of self._exclusions in place and stops before the
\* server_id set.
BuildInPlace(rows) ==
    [gametype |-> {r.value : r \in {x \in rows : x.type = "gametype"}},
     player_name |-> {r.value : r \in {x \in rows : x.type = "player_name"}},
     server_id |-> exclusions.server_id]

\* The loop of _refresh_exclusions that builds temp_exclusions from the rows.
BuildExclusions(rows) ==
    [gametype |-> {r.value : r \in {x \in rows : x.type = "gametype"}},
     player_name |-> {r.value : r \in {x \in rows : x.type = "player_name"}},
     server_id |->
        UNION { IF r.server_ip # "" /\ r.server_port # NULL /\ r.server_port # <<0>>
                THEN {PyTuple(r.server_ip, r.server_port[1]),
                      PyStr(ServerIdentifier(r.server_ip, r.server_port[1]))}
                ELSE IF r.value # "" THEN {PyStr(r.value)} ELSE {}
              : r \in {x \in rows : x.type = "server_id"} }]

\* server_identifier in excluded_servers or (ip, port) in excluded_servers
ExcludedByServerId(excl, ip, port) ==
    \/ PyStr(ServerIdentifier(ip, port)) \in excl.server_id
    \/ PyTuple(ip, port) \in excl.server_id

\* A check that finds no server excluded.
NeverExcluded(ip, port) == FALSE

\* Scheduler._is_server_excluded
IsServerExcluded(ip, port) == ExcludedByServerId(exclusions, ip, port)

(***************************************************************************)
(* Probe results: what GameSpy1.get_status returns (.info, .players).      *)
(***************************************************************************)
InfoActive == [gametype |-> "conquest", mapname |-> "Wake", numplayers |-> "16",
               roundtimeremain |-> "600"]
InfoEnding == [gametype |-> "conquest", mapname |-> "wake", numplayers |-> "16",
               roundtimeremain |-> "1"]
InfoEmpty == [gametype |-> "conquest", mapname |-> "Wake", numplayers |-> ""]
InfoCoop == [mapname |-> "Wake", gametype |-> "coop", numplayers |-> "7",
             roundtime |-> "600"]

PlayerAlice == [player |-> "Alice", keyhash |-> "ka", score |-> "5"]
PlayerALICE == [player |-> "ALICE", keyhash |-> "ka", score |-> "7"]
PlayerBob == [player |-> "Bob", score |-> "x"]
PlayerNoName == [player |-> "", score |-> "1"]

ProbeResults ==
    { [info |-> InfoEmpty, players |-> <<>>],
      [info |-> InfoActive, players |-> <<PlayerAlice>>],
      [info |-> InfoEnding, players |-> <<PlayerAlice>>],
      [info |-> InfoCoop, players |-> <<PlayerALICE, PlayerBob, PlayerNoName>>] }

\* The results and the tables the scheduler's runs draw from.
SchedulerResults ==
    { [info |-> InfoActive, players |-> <<PlayerAlice>>],
      [info |-> InfoEnding, players |-> <<PlayerAlice>>] }

SchedulerTables == {{}, {RowServer}}

(***************************************************************************)
(* data_processor.py                                                       *)
(***************************************************************************)
\* One entry of normalized_players.
NormalizePlayer(p) ==
    [name |-> Get(p, "player", "N/A"),
     keyhash |-> Get(p, "keyhash", NONE),
     score |-> CoerceInt(Get(p, "score", NONE), 0),
     ping |-> CoerceInt(Get(p, "ping", NONE), 0),
     team |-> CoerceInt(Get(p, "team", NONE), 0),
     kills |-> CoerceInt(Get(p, "kills", NONE), 0),
     deaths |-> CoerceInt(Get(p, "deaths", NONE), 0)]

PlayerNotExcluded(names, p) == Get(p, "player", "N/A") \notin names

\* normalized_players: players_raw without the excluded names, each normalized
NormalizedPlayers(players_raw, excl) ==
    LET kept == SelectSeq(players_raw, LAMBDA p : PlayerNotExcluded(excl.player_name, p))
    IN  [i \in DOMAIN kept |-> NormalizePlayer(kept[i])]

\* _update_player_sessions._build_index: later players overwrite earlier ones
BuildIndex(players) ==
    LET named == {i \in DOMAIN players : Get(players[i], "name", NONE) \notin {NONE, ""}}
        keys == {Lower(players[i].name) : i \in named}
    IN  [k \in keys |-> players[Max({i \in named : Lower(players[i].name) = k})]]

\* A diff that takes every current player as joined.
JoinedIsCurrent(prev_players, current_players) ==
    DOMAIN BuildIndex(current_players)

JoinedPlayers(prev_players, current_players) ==
    DOMAIN BuildIndex(current_players) \ DOMAIN BuildIndex(prev_players)

\* A diff that takes every previous player as having left.
LeftIsPrevious(prev_players, current_players) ==
    DOMAIN BuildIndex(prev_players)

LeftPlayers(prev_players, current_players) ==
    DOMAIN BuildIndex(prev_players) \ DOMAIN BuildIndex(current_players)

\* An UPDATE that matches no row.
CloseNothing(rows, left_players, timestamp) == rows

\* An UPDATE without the condition leave_ts IS NULL.
CloseAgain(rows, left_players, timestamp) ==
    [i \in DOMAIN rows |->
        IF rows[i].player_name_norm \in left_players
        THEN [rows[i] EXCEPT !.leave_ts = <<timestamp>>]
        ELSE rows[i]]

\* UPDATE player_sessions SET leave_ts = $1 WHERE ... player_name_norm = ANY($3) AND leave_ts IS NULL
CloseSessions(rows, left_players, timestamp) ==
    [i \in DOMAIN rows |->
        IF rows[i].player_name_norm \in left_players /\ rows[i].leave_ts = NULL
        THEN [rows[i] EXCEPT !.leave_ts = <<timestamp>>]
        ELSE rows[i]]

\* new_sessions_data, inserted by executemany
NewSessions(current_players, joined_players, timestamp) ==
    LET current_index == BuildIndex(current_players)
        order == SetToSeq(joined_players)
    IN  [i \in DOMAIN order |->
            [player_name |-> current_index[order[i]].name,
             player_name_norm |-> order[i],
             join_ts |-> timestamp,
             leave_ts |-> NULL,
             keyhash |-> current_index[order[i]].keyhash]]

\* _update_player_sessions: the session rows of one server after the diff
UpdatePlayerSessions(rows, prev_players, current_players, timestamp) ==
    CloseSessions(rows, LeftPlayers(prev_players, current_players), timestamp)
        \o NewSessions(current_players, JoinedPlayers(prev_players, current_players),
                       timestamp)

\* SELECT ... FROM server_snapshots WHERE server_id = $1 ORDER BY timestamp DESC LIMIT 1:
\* <<>> when the server has no snapshot, else <<row>> for a row of greatest timestamp
\* (which one among equal timestamps is not determined).
PreviousSnapshot(rows) ==
    IF rows = <<>> THEN {<<>>}
    ELSE LET top == Max({rows[i].timestamp : i \in DOMAIN rows})
         IN  {<<rows[i]>> : i \in {j \in DOMAIN rows : rows[j].timestamp = top}}

\* previous_players of process_server_success and process_server_failure
PreviousPlayers(previous_snapshot) ==
    IF previous_snapshot = <<>> THEN <<>> ELSE previous_snapshot[1].data.players

\* normalized_data and raw_payload of a probe
NormalizedData(raw_data, excl) ==
    [mapname |-> Lower(Get(raw_data.info, "mapname", "N/A")),
     players |-> NormalizedPlayers(raw_data.players, excl)]

RawPayload(raw_data) == [info |-> raw_data.info, players |-> raw_data.players]

\* The two early returns of process_server_success.
SuccessDropped(ip, port, raw_data, excl) ==
    \/ ExcludedByServerId(excl, ip, port)
    \/ Get(raw_data.info, "gametype", "N/A") \in excl.gametype

\* A comparison that takes every probe as unchanged, so that no snapshot is inserted.
SnapshotAlwaysUnchanged(previous_snapshot, normalized_data, raw_payload) == TRUE

\* A comparison of the normalized data alone.
SnapshotDataUnchanged(previous_snapshot, normalized_data, raw_payload) ==
    /\ previous_snapshot # <<>>
    /\ previous_snapshot[1].data = normalized_data

\* previous_data == normalized_data and previous_raw == raw_payload
SnapshotUnchanged(previous_snapshot, normalized_data, raw_payload) ==
    /\ previous_snapshot # <<>>
    /\ previous_snapshot[1].data = normalized_data
    /\ previous_snapshot[1].raw = raw_payload

\* An upsert whose DO UPDATE leaves consecutive_failures as it is.
UpsertKeepsFailures(a, raw_data, excl, timestamp) ==
    LET info == raw_data.info
        fresh == [status |-> "online", last_seen |-> timestamp, first_seen |-> timestamp,
                  consecutive_failures |-> 0,
                  hostname |-> Get(info, "hostname", "N/A"),
                  active_mod |-> Get(info, "active_mods", "N/A"),
                  gametype |-> Get(info, "gametype", "N/A"),
                  info |-> <<[info |-> info,
                              players |-> NormalizedPlayers(raw_data.players, excl)]>>]
    IN  IF a \in DOMAIN servers
        THEN [servers EXCEPT ![a] =
                [fresh EXCEPT !.first_seen = servers[a].first_seen,
                              !.consecutive_failures = servers[a].consecutive_failures]]
        ELSE (a :> fresh) @@ servers

\* INSERT INTO servers ... ON CONFLICT (ip, port) DO UPDATE of process_server_success
UpsertServerSuccess(a, raw_data, excl, timestamp) ==
    LET info == raw_data.info
        fresh == [status |-> "online", last_seen |-> timestamp, first_seen |-> timestamp,
                  consecutive_failures |-> 0,
                  hostname |-> Get(info, "hostname", "N/A"),
                  active_mod |-> Get(info, "active_mods", "N/A"),
                  gametype |-> Get(info, "gametype", "N/A"),
                  info |-> <<[info |-> info,
                              players |-> NormalizedPlayers(raw_data.players, excl)]>>]
    IN  IF a \in DOMAIN servers
        THEN [servers EXCEPT ![a] = [fresh EXCEPT !.first_seen = servers[a].first_seen]]
        ELSE (a :> fresh) @@ servers

\* process_server_success
ProcessServerSuccess(ip, port, raw_data, excl, timestamp) ==
    LET a == <<ip, port>>
        normalized_data == NormalizedData(raw_data, excl)
        raw_payload == RawPayload(raw_data)
        mapname == normalized_data.mapname
    IN  IF SuccessDropped(ip, port, raw_data, excl)
        THEN UNCHANGED <<servers, unique_maps, snapshots, sessions>>
        ELSE /\ servers' = UpsertServerSuccess(a, raw_data, excl, timestamp)
             /\ unique_maps' = IF mapname # "n/a" THEN unique_maps \cup {mapname}
                               ELSE unique_maps
             /\ \E previous_snapshot \in PreviousSnapshot(snapshots[a]) :
                  /\ sessions' = [sessions EXCEPT ![a] =
                        UpdatePlayerSessions(sessions[a], PreviousPlayers(previous_snapshot),
                                             normalized_data.players, timestamp)]
                  /\ snapshots' =
                        IF SnapshotUnchanged(previous_snapshot, normalized_data, raw_payload)
                        THEN snapshots
                        ELSE [snapshots EXCEPT ![a] =
                                Append(@, [timestamp |-> timestamp,
                                           data |-> normalized_data,
                                           raw |-> raw_payload])]

\* An upsert that marks the server offline at every failure.
UpsertFailureOffline(a, timestamp) ==
    IF a \in DOMAIN servers
    THEN [servers EXCEPT ![a] =
            [@ EXCEPT !.last_seen = timestamp,
                      !.consecutive_failures = @ + 1,
                      !.status = "offline"]]
    ELSE (a :> [status |-> "offline", last_seen |-> timestamp, first_seen |-> timestamp,
                consecutive_failures |-> 1, hostname |-> NONE, active_mod |-> NONE,
                gametype |-> NONE, info |-> NULL]) @@ servers

\* INSERT INTO servers ... ON CONFLICT (ip, port) DO UPDATE of process_server_failure
UpsertServerFailure(a, timestamp) ==
    IF a \in DOMAIN servers
    THEN [servers EXCEPT ![a] =
            [@ EXCEPT !.last_seen = timestamp,
                      !.consecutive_failures = @ + 1,
                      !.status = IF servers[a].consecutive_failures + 1
                                      >= OFFLINE_FAILURE_THRESHOLD
                                 THEN "offline" ELSE @]]
    ELSE (a :> [status |-> "offline", last_seen |-> timestamp, first_seen |-> timestamp,
                consecutive_failures |-> 1, hostname |-> NONE, active_mod |-> NONE,
                gametype |-> NONE, info |-> NULL]) @@ servers

\* process_server_failure
ProcessServerFailure(ip, port, timestamp) ==
    LET a == <<ip, port>>
    IN  /\ servers' = UpsertServerFailure(a, timestamp)
        /\ IF servers'[a].consecutive_failures >= OFFLINE_FAILURE_THRESHOLD
           THEN \E previous_snapshot \in PreviousSnapshot(snapshots[a]) :
                  sessions' = [sessions EXCEPT ![a] =
                      UpdatePlayerSessions(sessions[a], PreviousPlayers(previous_snapshot),
                                           <<>>, timestamp)]
           ELSE UNCHANGED sessions
        /\ UNCHANGED <<snapshots, unique_maps>>

(***************************************************************************)
(* The delay policy of Scheduler._worker.                                  *)
(***************************************************************************)
\* scheduler._safe_int
SafeInt(value, default) ==
    IF value = NONE \/ value = "" THEN default
    ELSE IF value \in DOMAIN IntLiteral THEN IntLiteral[value]
    ELSE default

\* info.get('roundtimeremain') or info.get('roundtime')
TimeRemainingField(info) ==
    IF Get(info, "roundtimeremain", NONE) \notin {NONE, ""}
    THEN info["roundtimeremain"]
    ELSE Get(info, "roundtime", NONE)

\* A policy that tests the round-ending rule before the empty-server rule.
RoundEndingFirst(info) ==
    LET num_players == SafeInt(Get(info, "numplayers", NONE), 0)
        time_remaining == SafeInt(TimeRemainingField(info), 0)
    IN  IF 0 < time_remaining /\ time_remaining < POLL_INTERVAL_ACTIVE_S + 5
        THEN time_remaining + 3
        ELSE IF num_players = 0 THEN POLL_INTERVAL_EMPTY_S
             ELSE POLL_INTERVAL_ACTIVE_S

\* delay after a successful probe
SuccessDelay(info) ==
    LET num_players == SafeInt(Get(info, "numplayers", NONE), 0)
        time_remaining == SafeInt(TimeRemainingField(info), 0)
    IN  IF num_players = 0 THEN POLL_INTERVAL_EMPTY_S
        ELSE IF 0 < time_remaining /\ time_remaining < POLL_INTERVAL_ACTIVE_S + 5
             THEN time_remaining + 3
             ELSE POLL_INTERVAL_ACTIVE_S

\* A policy that re-enqueues at once.
NoDelay(result) == 0

\* delay for a query result: <<>> is None, <<raw_data>> a status
NextDelay(result) ==
    IF result # <<>> THEN SuccessDelay(result[1].info) ELSE POLL_INTERVAL_OFFLINE_S

(***************************************************************************)
(* History of the most recent ingestion: what it was called with and the   *)
(* rows of its server before it ran.                                       *)
(***************************************************************************)
NoLast ==
    [seq |-> 0, kind |-> "none", addr |-> <<>>, timestamp |-> 0, result |-> <<>>,
     excl |-> EmptyExclusions, server_before |-> <<>>, snapshots_before |-> <<>>,
     sessions_before |-> <<>>, success_before |-> <<>>]

Record(kind, a, timestamp, result, excl) ==
    [seq |-> last.seq + 1, kind |-> kind, addr |-> a, timestamp |-> timestamp,
     result |-> result, excl |-> excl,
     server_before |-> IF a \in DOMAIN servers THEN <<servers[a]>> ELSE <<>>,
     snapshots_before |-> snapshots[a],
     sessions_before |-> sessions[a],
     success_before |-> IF last.kind = "success"
                          THEN <<[addr |-> last.addr, result |-> last.result,
                                  excl |-> last.excl]>>
                          ELSE last.success_before]

\* The call a worker makes with the result of query_server (scheduler.py lines 190-211):
\* the success path is given the exclusions, the failure path is not.
Ingest(ip, port, result, excl, timestamp) ==
    /\ IF result # <<>>
       THEN ProcessServerSuccess(ip, port, result[1], excl, timestamp)
       ELSE ProcessServerFailure(ip, port, timestamp)
    /\ last' = Record(IF result # <<>> THEN "success" ELSE "failure",
                      <<ip, port>>, timestamp, result, excl)

(***************************************************************************)
(* Scheduler state after Scheduler.__init__, and an empty database.        *)
(***************************************************************************)
EmptyQueue == [e \in {} |-> 0]

InitScheduler ==
    /\ known_servers = {}
    /\ queue = EmptyQueue
    /\ parked_servers = {}
    /\ exclusions = EmptyExclusions
    /\ pc = [w \in Workers |-> "get"]
    /\ held = [w \in Workers |-> <<>>]
    /\ requeue_at = [w \in Workers |-> 0]
    /\ refresh_at = 0
    /\ poll_at = 0
    /\ backoff_delay = MASTER_LIST_POLL_INTERVAL_S
    /\ released = {}
    /\ task_state = [t \in TaskNames |-> "pending"]
    /\ closed = <<>>
    /\ query_call = NoCall
    /\ checked_excl = [w \in Workers |-> EmptyExclusions]
    /\ queried_excluded = [a \in Addrs |-> 0]
    /\ refresh_call = NoCall
    /\ fetch_call = NoCall

InitStoreTables ==
    /\ snapshots = [a \in Addrs |-> <<>>]
    /\ sessions = [a \in Addrs |-> <<>>]
    /\ unique_maps = {}
    /\ last = NoLast
    /\ ops = 0

(***************************************************************************)
(* Scheduler._queue: an asyncio.PriorityQueue of tuples (next_poll_time,   *)
(* ip, port), here the function from each entry present to its number of   *)
(* copies.  get() returns a smallest tuple.                                *)
(***************************************************************************)
IpRank == ("10.0.0.1" :> 1) @@ ("10.0.0.2" :> 2)

\* Python's tuple comparison e < f on (next_poll_time, ip, port)
EntryLess(e, f) ==
    \/ e[1] < f[1]
    \/ e[1] = f[1] /\ IpRank[e[2]] < IpRank[f[2]]
    \/ e[1] = f[1] /\ e[2] = f[2] /\ e[3] < f[3]

\* queue.put(entry)
Put(q, entry) ==
    IF entry \in DOMAIN q THEN [q EXCEPT ![entry] = @ + 1] ELSE (entry :> 1) @@ q

RECURSIVE PutAll(_, _)
PutAll(q, entries) ==
    IF entries = <<>> THEN q ELSE PutAll(Put(q, Head(entries)), Tail(entries))

\* the entry queue.get() returns
QueueHead(q) == CHOOSE e \in DOMAIN q : \A f \in DOMAIN q : ~EntryLess(f, e)

\* the queue after queue.get() returned entry
Remove(q, entry) ==
    IF q[entry] > 1 THEN [q EXCEPT ![entry] = @ - 1]
    ELSE [e \in DOMAIN q \ {entry} |-> q[e]]

(***************************************************************************)
(* Scheduler._refresh_exclusions                                           *)
(***************************************************************************)
\* The parked servers the release loop puts back (lines 66-74).
Released(excl) ==
    {a \in parked_servers : ~ExcludedByServerId(excl, a[1], a[2])}

\* A release loop without the discard.
ParkedKeepsReleased(excl) == parked_servers

\* self._parked_servers after the release loop
ParkedAfterRelease(excl) == parked_servers \ Released(excl)

\* A release loop without the put.
QueueWithoutReleased(excl) == queue

\* A release loop that puts the entries with the time 0.
QueueReleasedAtZero(excl) ==
    PutAll(queue, [i \in DOMAIN SetToSeq(Released(excl)) |->
                      <<0, SetToSeq(Released(excl))[i][1], SetToSeq(Released(excl))[i][2]>>])

\* self._queue after the release loop: one entry at time.time() per released server
QueueAfterRelease(excl) ==
    PutAll(queue, [i \in DOMAIN SetToSeq(Released(excl)) |->
                      <<now, SetToSeq(Released(excl))[i][1], SetToSeq(Released(excl))[i][2]>>])

\* A reload that succeeds with the given rows.
RefreshExclusions(rows) ==
    /\ exclusions' = BuildExclusions(rows)
    /\ parked_servers' = ParkedAfterRelease(exclusions')
    /\ queue' = QueueAfterRelease(exclusions')
    /\ released' = Released(exclusions')

\* A reload that raises (conn.fetch fails): nothing is assigned.
RefreshExclusionsFails ==
    UNCHANGED <<exclusions, parked_servers, queue, released>>

(***************************************************************************)
(* Scheduler.run up to the creation of the tasks: _seed_known_servers      *)
(***************************************************************************)
\* lines 87-90: the refresh before seeding, its exception logged
SeedRefresh ==
    /\ phase = "seed_refresh"
    /\ phase' = "seed_load"
    /\ \/ \E rows \in SchedulerTables : RefreshExclusions(rows)
       \/ RefreshExclusionsFails
    /\ UNCHANGED <<now, known_servers, pc, held, requeue_at, refresh_at, poll_at,
                   backoff_delay, storeVars, last, ops>>
    /\ UNCHANGED <<lifeVars, netVars>>

\* A pass that takes every listed server as new.
NewServersListed(listed) == listed

\* The servers a seeding or discovery pass adds: those not yet in _known_servers.
NewServers(listed) ==
    {a \in listed : ServerIdentifier(a[1], a[2]) \notin known_servers}

\* _known_servers, _parked_servers and _queue after the new servers are admitted
\* (lines 102-114 and 158-168): each is added to the known set and parked when
\* excluded, enqueued at the current time otherwise.
KnownAfterAdmit(new_servers) ==
    known_servers \cup {ServerIdentifier(a[1], a[2]) : a \in new_servers}

ParkedAfterAdmit(new_servers) ==
    parked_servers \cup {a \in new_servers : IsServerExcluded(a[1], a[2])}

QueueAfterAdmit(new_servers) ==
    LET admitted == SetToSeq({a \in new_servers : ~IsServerExcluded(a[1], a[2])})
    IN  PutAll(queue, [i \in DOMAIN admitted |-> <<now, admitted[i][1], admitted[i][2]>>])

Admit(new_servers) ==
    /\ known_servers' = KnownAfterAdmit(new_servers)
    /\ parked_servers' = ParkedAfterAdmit(new_servers)
    /\ queue' = QueueAfterAdmit(new_servers)

\* lines 92-120: SELECT ip, port FROM servers, or the early return when it fails
SeedLoad ==
    /\ phase = "seed_load"
    /\ phase' = "running"
    /\ \/ Admit(NewServers(DOMAIN servers))
       \/ UNCHANGED <<known_servers, parked_servers, queue>>
    /\ UNCHANGED <<now, exclusions, released, pc, held, requeue_at, refresh_at, poll_at,
                   backoff_delay, storeVars, last, ops>>
    /\ UNCHANGED <<lifeVars, netVars>>

(***************************************************************************)
(* Scheduler._update_exclusions_cache                                      *)
(***************************************************************************)
UpdateExclusionsCache ==
    /\ phase = "running"
    /\ now >= refresh_at
    /\ refresh_at' = now + EXCLUSIONS_REFRESH_S
    /\ \/ \E rows \in SchedulerTables : RefreshExclusions(rows)
       \/ RefreshExclusionsFails
    /\ UNCHANGED <<now, phase, known_servers, pc, held, requeue_at, poll_at,
                   backoff_delay, storeVars, last, ops>>
    /\ UNCHANGED <<lifeVars, netVars>>

(***************************************************************************)
(* Scheduler._master_list_poller                                           *)
(***************************************************************************)
\* What master_list.fetch_servers returns: <<>> is None (the fetch failed),
\* <<servers>> a list of (ip, port), possibly empty, possibly with repeats.
FetchResults ==
    { <<>>, << <<>> >>,
      << << <<"10.0.0.1", 14567>> >> >>,
      << << <<"10.0.0.2", 23000>>, <<"10.0.0.1", 14567>>, <<"10.0.0.2", 23000>> >> >> }

\* backoff_delay = min(backoff_delay * 2, ...) without the cap
DoubleBackoff(delay) == delay * 2

\* backoff_delay = min(backoff_delay * 2, self._master_list_max_backoff)
NextBackoff(delay) ==
    IF delay * 2 < MASTER_LIST_MAX_BACKOFF_S THEN delay * 2 ELSE MASTER_LIST_MAX_BACKOFF_S

\* current_server_ids (as addresses): {f"{ip}:{port}" for ip, port in servers}
CurrentServerIds(servers_list) ==
    {SplitServerId(ServerIdentifier(servers_list[i][1], servers_list[i][2])) :
        i \in DOMAIN servers_list}

MasterListPoller ==
    /\ phase = "running"
    /\ now >= poll_at
    /\ \E fetched \in FetchResults :
         IF fetched = <<>>
         THEN /\ backoff_delay' = NextBackoff(backoff_delay)
              /\ poll_at' = now + backoff_delay'
              /\ UNCHANGED <<known_servers, parked_servers, queue>>
         ELSE /\ backoff_delay' = MASTER_LIST_POLL_INTERVAL_S
              /\ poll_at' = now + MASTER_LIST_POLL_INTERVAL_S
              /\ Admit(NewServers(CurrentServerIds(fetched[1])))
    /\ UNCHANGED <<now, phase, exclusions, released, pc, held, requeue_at, refresh_at,
                   storeVars, last, ops>>
    /\ UNCHANGED <<lifeVars, netVars>>

(***************************************************************************)
(* Scheduler._worker                                                       *)
(***************************************************************************)
HeldAddr(w) == <<held[w][2], held[w][3]>>

\* A worker that drops the entry of an excluded server without parking it.
DropEntry(w, entry) ==
    UNCHANGED <<parked_servers, pc, held>>

\* lines 177-181: the dequeued entry's server is excluded; it is parked
ParkEntry(w, entry) ==
    /\ parked_servers' = parked_servers \cup {<<entry[2], entry[3]>>}
    /\ UNCHANGED <<pc, held>>

\* A worker that queries at once whatever the entry's time.
KeepEntryNoSleep(w, entry) ==
    /\ held' = [held EXCEPT ![w] = entry]
    /\ pc' = [pc EXCEPT ![w] = "query"]
    /\ UNCHANGED parked_servers

\* lines 183-187: the entry is kept; sleep until its time, else query at once
KeepEntry(w, entry) ==
    /\ held' = [held EXCEPT ![w] = entry]
    /\ pc' = [pc EXCEPT ![w] = IF entry[1] - now > 0 THEN "sleep" ELSE "query"]
    /\ UNCHANGED parked_servers

\* lines 175-185: queue.get() returns, the exclusion check, the start of the sleep
Dequeue(w) ==
    /\ phase = "running"
    /\ pc[w] = "get"
    /\ DOMAIN queue # {}
    /\ LET entry == QueueHead(queue)
       IN  /\ queue' = Remove(queue, entry)
           /\ IF IsServerExcluded(entry[2], entry[3])
              THEN ParkEntry(w, entry)
              ELSE KeepEntry(w, entry)
    /\ UNCHANGED <<now, phase, known_servers, exclusions, released, requeue_at,
                   refresh_at, poll_at, backoff_delay, storeVars, last, ops>>
    /\ checked_excl' = [checked_excl EXCEPT ![w] = exclusions]
    /\ UNCHANGED <<lifeVars, callVars, queried_excluded>>

\* lines 185-187: asyncio.sleep(sleep_duration) returns and query_server is called
Wake(w) ==
    /\ pc[w] = "sleep"
    /\ now >= held[w][1]
    /\ pc' = [pc EXCEPT ![w] = "query"]
    /\ UNCHANGED <<now, phase, known_servers, queue, parked_servers, exclusions,
                   released, held, requeue_at, refresh_at, poll_at, backoff_delay,
                   storeVars, last, ops>>
    /\ UNCHANGED <<lifeVars, netVars>>

\* lines 187-211: query_server returns; now is read, the store is called with the
\* exclusions of that moment, and the delay is computed
QueryReturns(w) ==
    /\ pc[w] = "query"
    /\ last.seq < MaxProbes
    /\ \E result \in {<<>>} \cup {<<r>> : r \in SchedulerResults} :
         /\ Ingest(held[w][2], held[w][3], result, exclusions, now)
         /\ requeue_at' = [requeue_at EXCEPT ![w] = now + NextDelay(result)]
    /\ pc' = [pc EXCEPT ![w] = "ingest"]
    /\ UNCHANGED <<now, phase, known_servers, queue, parked_servers, exclusions,
                   released, held, refresh_at, poll_at, backoff_delay, ops>>
    /\ UNCHANGED <<lifeVars, netVars>>

\* A worker that takes the next entry without putting the server back.
RequeueLosesEntry(w) ==
    /\ pc[w] = "ingest"
    /\ held' = [held EXCEPT ![w] = <<>>]
    /\ pc' = [pc EXCEPT ![w] = "get"]
    /\ UNCHANGED <<now, phase, known_servers, queue, parked_servers, exclusions, released,
                   requeue_at, refresh_at, poll_at, backoff_delay, storeVars, last, ops>>
    /\ UNCHANGED <<lifeVars, netVars>>

\* line 213: the store call has returned; the server is put back
Requeue(w) ==
    /\ pc[w] = "ingest"
    /\ queue' = Put(queue, <<requeue_at[w], held[w][2], held[w][3]>>)
    /\ held' = [held EXCEPT ![w] = <<>>]
    /\ pc' = [pc EXCEPT ![w] = "get"]
    /\ UNCHANGED <<now, phase, known_servers, parked_servers, exclusions, released,
                   requeue_at, refresh_at, poll_at, backoff_delay, storeVars, last, ops>>
    /\ UNCHANGED <<lifeVars, netVars>>

(***************************************************************************)
(* The clock.  A sleep that is over ends before time moves on, so the      *)
(* clock steps from one wake-up time to the next: the end of a worker's    *)
(* sleep, or of the sleep of the refresher or of the poller.  Queries and  *)
(* store calls take any time: they may return before or after a step.      *)
(***************************************************************************)
WakeTimes ==
    {held[w][1] : w \in {v \in Workers : pc[v] = "sleep"}} \cup {refresh_at, poll_at}

Tick ==
    /\ phase = "running"
    /\ \A t \in WakeTimes : t > now
    /\ now' = Min(WakeTimes)
    /\ now' <= MaxTime
    /\ UNCHANGED <<schedVars, exclusions, released, storeVars, last, ops>>
    /\ UNCHANGED <<lifeVars, netVars>>

(***************************************************************************)
(* Spec: the scheduler from its construction, on a database that is empty  *)
(* or holds the row an earlier run left when a probe failed.                *)
(***************************************************************************)
EarlierRow ==
    [status |-> "offline", last_seen |-> 0, first_seen |-> 0, consecutive_failures |-> 1,
     hostname |-> NONE, active_mod |-> NONE, gametype |-> NONE, info |-> NULL]

Init ==
    /\ now = 0
    /\ phase = "seed_refresh"
    /\ InitScheduler
    /\ InitStoreTables
    /\ servers \in {<<>>, (<<"10.0.0.2", 23000>> :> EarlierRow)}

Next ==
    \/ SeedRefresh
    \/ SeedLoad
    \/ UpdateExclusionsCache
    \/ MasterListPoller
    \/ \E w \in Workers : Dequeue(w)
    \/ \E w \in Workers : Wake(w)
    \/ \E w \in Workers : QueryReturns(w)
    \/ \E w \in Workers : Requeue(w)
    \/ Tick

Spec == Init /\ [][Next]_vars

(***************************************************************************)
(* SpecStore: the store driven by the ingestions of one server, without    *)
(* the queue and the clock of the scheduler between them.  As in the       *)
(* worker, an ingestion follows an exclusion check that the server passed  *)
(* and uses the exclusions of the moment it runs; successive ingestions    *)
(* are spaced by at least the smallest delay of the policy.                *)
(***************************************************************************)
StoreAddr == <<"10.0.0.1", 14567>>

StoreGap == Min({NextDelay(<<r>>) : r \in ProbeResults} \cup {NextDelay(<<>>)})

InitStore ==
    /\ now = 0
    /\ phase = "running"
    /\ InitScheduler
    /\ InitStoreTables
    /\ servers = <<>>

\* a reload between two steps of the worker (the release loop has nothing to release)
StoreRefresh ==
    /\ ops < MaxOps
    /\ ops' = ops + 1
    /\ \E rows \in ExclusionTables :
         /\ exclusions' = BuildExclusions(rows)
         /\ exclusions' # exclusions
    /\ UNCHANGED <<now, schedVars, released, storeVars, last>>
    /\ UNCHANGED <<lifeVars, netVars>>

\* the worker dequeues the server's entry and keeps it (Dequeue, not excluded)
StoreDequeue ==
    /\ pc[1] = "get"
    /\ ~IsServerExcluded(StoreAddr[1], StoreAddr[2])
    /\ held' = [held EXCEPT ![1] = <<now, StoreAddr[1], StoreAddr[2]>>]
    /\ pc' = [pc EXCEPT ![1] = "query"]
    /\ UNCHANGED <<now, phase, known_servers, queue, parked_servers, exclusions,
                   released, requeue_at, refresh_at, poll_at, backoff_delay, storeVars,
                   last, ops>>
    /\ checked_excl' = [checked_excl EXCEPT ![1] = exclusions]
    /\ UNCHANGED <<lifeVars, callVars, queried_excluded>>

\* the query returns and the result is ingested (QueryReturns and Requeue)
StoreIngest ==
    /\ pc[1] = "query"
    /\ ops < MaxOps
    /\ ops' = ops + 1
    /\ now' = now + StoreGap
    /\ \E result \in {<<>>} \cup {<<r>> : r \in ProbeResults} :
         Ingest(StoreAddr[1], StoreAddr[2], result, exclusions, now')
    /\ held' = [held EXCEPT ![1] = <<>>]
    /\ pc' = [pc EXCEPT ![1] = "get"]
    /\ UNCHANGED <<phase, known_servers, queue, parked_servers, exclusions, released,
                   requeue_at, refresh_at, poll_at, backoff_delay>>
    /\ UNCHANGED <<lifeVars, netVars>>

NextStore == StoreRefresh \/ StoreDequeue \/ StoreIngest

SpecStore == InitStore /\ [][NextStore]_vars

(***************************************************************************)
(* Vocabulary of the claims about the scheduler.                           *)
(***************************************************************************)
RECURSIVE SumCopies(_, _)
SumCopies(q, entries) ==
    IF entries = {} THEN 0
    ELSE LET e == CHOOSE x \in entries : TRUE
         IN  q[e] + SumCopies(q, entries \ {e})

\* the number of entries the queue q holds for the address a
EntryCount(q, a) == SumCopies(q, {e \in DOMAIN q : <<e[2], e[3]>> = a})

\* the workers that have dequeued an entry of a and not yet re-enqueued or parked it
Holders(a) == {w \in Workers : held[w] # <<>> /\ HeldAddr(w) = a}

KnownAddrs == {a \in Addrs : ServerIdentifier(a[1], a[2]) \in known_servers}

\* C1: every known address is in exactly one of three places: it has an entry in the
\* queue, a worker holds it, or it is parked; a parked address has no queue entry and
\* a known address is never in none of the three.
C1_ExactlyOnePlace ==
    /\ \A a \in KnownAddrs :
         LET inQueue == EntryCount(queue, a) > 0
             isHeld == Holders(a) # {}
             isParked == a \in parked_servers
         IN  /\ inQueue \/ isHeld \/ isParked
             /\ ~(inQueue /\ isHeld)
             /\ ~(inQueue /\ isParked)
             /\ ~(isHeld /\ isParked)
    /\ \A a \in parked_servers : EntryCount(queue, a) = 0 /\ Holders(a) = {}

\* Both addresses are known, one parked, the other held by a worker that sleeps.
C1_Witness ==
    /\ KnownAddrs = Addrs
    /\ parked_servers # {}
    /\ \E w \in Workers : pc[w] = "sleep"

\* C2: for every address the entries the queue holds for it plus the workers holding
\* it are at most one, whatever seeding, discovery (also of a list that repeats known
\* addresses) and releases did; so no two workers query or ingest the same address at
\* the same time.
C2_AtMostOneEntryOrHolder ==
    \A a \in Addrs : EntryCount(queue, a) + Cardinality(Holders(a)) <= 1

\* After a discovery pass and a release, the two workers hold the two addresses.
C2_Witness ==
    /\ poll_at > 0
    /\ released # {}
    /\ KnownAddrs = Addrs
    /\ \A a \in Addrs : Cardinality(Holders(a)) = 1

(***************************************************************************)
(* Vocabulary of the claims about the store.                               *)
(***************************************************************************)
OpenSessions(a) == {i \in DOMAIN sessions[a] : sessions[a][i].leave_ts = NULL}

OpenNames(a) == {sessions[a][i].player_name_norm : i \in OpenSessions(a)}

OpenBefore == {i \in DOMAIN last.sessions_before : last.sessions_before[i].leave_ts = NULL}

\* The last ingestion was of a successful probe and passed both exclusion checks.
LastAccepted ==
    /\ last.kind = "success"
    /\ ~SuccessDropped(last.addr[1], last.addr[2], last.result[1], last.excl)

LastDropped ==
    /\ last.kind = "success"
    /\ SuccessDropped(last.addr[1], last.addr[2], last.result[1], last.excl)

\* The filtered player list of the last (successful) probe and its normalized names.
LastPlayers == NormalizedPlayers(last.result[1].players, last.excl)

LastNames == {Lower(LastPlayers[i].name) : i \in {j \in DOMAIN LastPlayers :
                                                     LastPlayers[j].name # ""}}

LastFailures == servers[last.addr].consecutive_failures

\* C3: for every server and normalized player name at most one session row has
\* leave_ts = NULL, after any sequence of ingestions of successful and failed probes.
C3_OneOpenSessionPerName ==
    \A a \in Addrs : \A i, j \in OpenSessions(a) :
        sessions[a][i].player_name_norm = sessions[a][j].player_name_norm => i = j

\* A player left and came back: a closed row and an open row for the same name.
C3_Witness ==
    \E a \in Addrs : \E i \in OpenSessions(a) : \E j \in DOMAIN sessions[a] :
        /\ sessions[a][j].leave_ts # NULL
        /\ sessions[a][j].player_name_norm = sessions[a][i].player_name_norm

\* C4: after every accepted successful probe the names with an open session at the
\* server are exactly the (non-empty) normalized names of the probe's filtered player
\* list, so a player whose session the failure threshold closed and who is listed by
\* the next successful probe has a session opened at that probe's timestamp.
C4_OpenSessionsMatchProbe ==
    LastAccepted => OpenNames(last.addr) = LastNames

\* C5: an accepted successful probe inserts a snapshot iff its normalized_data or its
\* raw_payload differs from the server's most recent snapshot or there is none; the
\* inserted row carries the probe's timestamp, data and raw; without an insert the
\* snapshots are untouched; either way the most recent snapshot then equals the probe
\* (so an identical next probe inserts nothing) and last_seen is the probe's timestamp.
C5_SnapshotIffChanged ==
    LastAccepted =>
        LET a == last.addr
            before == last.snapshots_before
            data == NormalizedData(last.result[1], last.excl)
            raw == RawPayload(last.result[1])
            differs == \/ before = <<>>
                       \/ \E p \in PreviousSnapshot(before) :
                            p[1].data # data \/ p[1].raw # raw
            row == [timestamp |-> last.timestamp, data |-> data, raw |-> raw]
        IN  /\ differs <=> snapshots[a] = Append(before, row)
            /\ ~differs <=> snapshots[a] = before
            /\ \A p \in PreviousSnapshot(snapshots[a]) :
                 p # <<>> /\ p[1].data = data /\ p[1].raw = raw
            /\ servers[a].last_seen = last.timestamp

\* The second of two identical probes: no snapshot inserted, last_seen advanced.
C5_Witness ==
    /\ LastAccepted
    /\ last.snapshots_before # <<>>
    /\ snapshots[last.addr] = last.snapshots_before
    /\ Len(snapshots[last.addr]) = 1
    /\ last.server_before # <<>>
    /\ servers[last.addr].last_seen > last.server_before[1].last_seen

\* C6: a failed probe that leaves consecutive_failures below the threshold changes no
\* session row; one that leaves it at or above the threshold leaves the server without
\* an open session, each session that was open now closed at the failure's timestamp
\* and every other row as it was.
C6_FailureClosesAtThreshold ==
    last.kind = "failure" =>
        LET a == last.addr
            before == last.sessions_before
        IN  IF LastFailures < OFFLINE_FAILURE_THRESHOLD
            THEN sessions[a] = before
            ELSE /\ OpenSessions(a) = {}
                 /\ DOMAIN sessions[a] = DOMAIN before
                 /\ \A i \in DOMAIN before :
                      sessions[a][i] =
                        IF i \in OpenBefore
                        THEN [before[i] EXCEPT !.leave_ts = <<last.timestamp>>]
                        ELSE before[i]

\* The failure that reaches the threshold while a session is open.
C6_Witness ==
    /\ last.kind = "failure"
    /\ LastFailures = OFFLINE_FAILURE_THRESHOLD
    /\ OpenBefore # {}
    /\ OpenSessions(last.addr) = {}

\* C7 as stated: each failed probe adds exactly one to consecutive_failures (the first
\* ever creates the row with 1) and after any successful probe it is 0.
C7_ResetOnAnySuccess ==
    /\ last.kind = "failure" =>
         LastFailures = IF last.server_before = <<>> THEN 1
                        ELSE last.server_before[1].consecutive_failures + 1
    /\ (last.kind = "success" /\ last.addr \in DOMAIN servers) => LastFailures = 0

\* C7 amended: each failed probe adds exactly one (the first ever creates the row with
\* 1); after a successful probe that is accepted it is 0; a successful probe dropped by
\* a server_id or gametype exclusion leaves the row, and so the counter, as it was.
C7_ResetOnAcceptedSuccess ==
    /\ last.kind = "failure" =>
         LastFailures = IF last.server_before = <<>> THEN 1
                        ELSE last.server_before[1].consecutive_failures + 1
    /\ LastAccepted => LastFailures = 0
    /\ LastDropped =>
         IF last.server_before = <<>> THEN last.addr \notin DOMAIN servers
         ELSE servers[last.addr] = last.server_before[1]

\* An accepted success resets a counter that failures had raised.
C7_Witness ==
    /\ LastAccepted
    /\ last.server_before # <<>>
    /\ last.server_before[1].consecutive_failures >= 2
    /\ LastFailures = 0

\* C8: the snapshots of a server, in the order of their insertion, have strictly
\* increasing timestamps, so the row ORDER BY timestamp DESC LIMIT 1 returns is the one
\* inserted last.
C8_SnapshotTimestampsIncrease ==
    \A a \in Addrs :
        /\ \A i, j \in DOMAIN snapshots[a] :
             i < j => snapshots[a][i].timestamp < snapshots[a][j].timestamp
        /\ snapshots[a] # <<>> =>
             PreviousSnapshot(snapshots[a]) = {<<snapshots[a][Len(snapshots[a])]>>}

\* A server with two snapshots, inserted by two probes of the scheduler's workers.
C8_Witness ==
    \E a \in Addrs : Len(snapshots[a]) >= 2

\* C9: a step of an exclusion refresh removes from the parked set exactly the parked
\* addresses that the new exclusions do not exclude, gives each of them one queue entry
\* due at the time of the refresh, and leaves every address still parked excluded under
\* the new exclusions.
C9_RefreshReleasesParked ==
    [][(exclusions' # exclusions \/ refresh_at' # refresh_at \/ phase = "seed_refresh") =>
         LET freed == {a \in parked_servers :
                          ~ExcludedByServerId(exclusions', a[1], a[2])}
         IN  /\ parked_servers' = parked_servers \ freed
             /\ \A a \in freed : /\ <<now, a[1], a[2]>> \in DOMAIN queue'
                                 /\ EntryCount(queue', a) = 1
             /\ \A a \in parked_servers' : ExcludedByServerId(exclusions', a[1], a[2])
      ]_vars

\* Right after a refresh that released a server: it is queued at the current time and
\* no longer parked.
C9_Witness ==
    /\ released # {}
    /\ \A a \in released : /\ <<now, a[1], a[2]>> \in DOMAIN queue
                           /\ a \notin parked_servers

\* C10 as stated: no worker starts a query of an address that the exclusions in force
\* exclude by server_id, also when it had dequeued the entry before the refresh.
C10_NoQueryWhileExcluded ==
    [][\A w \in Workers :
         (pc[w] # "query" /\ pc'[w] = "query") =>
            ~ExcludedByServerId(exclusions', held'[w][2], held'[w][3])]_vars

\* C10 amended: a worker that dequeues an entry of an address excluded by server_id
\* parks the address without querying it, and a query of an excluded address is started
\* only by a worker that held the entry already and was waiting for its due-time.
C10_ExcludedParkedOnDequeue ==
    [][/\ \A w \in Workers :
            (pc[w] = "get" /\ pc'[w] # "get") =>
               ~ExcludedByServerId(exclusions, held'[w][2], held'[w][3])
       /\ \A a \in Addrs :
            (EntryCount(queue', a) < EntryCount(queue, a)
                /\ ExcludedByServerId(exclusions, a[1], a[2])) =>
               /\ a \in parked_servers'
               /\ pc' = pc
               /\ held' = held
       /\ \A w \in Workers :
            (pc[w] # "query" /\ pc'[w] = "query"
                /\ ExcludedByServerId(exclusions', held'[w][2], held'[w][3])) =>
               /\ pc[w] = "sleep"
               /\ held'[w] = held[w]
      ]_vars

\* A worker that slept toward the due-time of an entry queries the address although a
\* refresh has excluded it meanwhile.
C10_Witness ==
    \E w \in Workers :
        /\ pc[w] = "query"
        /\ held[w][1] > 0
        /\ now >= held[w][1]
        /\ ExcludedByServerId(exclusions, held[w][2], held[w][3])

\* The server row, the snapshots and the sessions of the last ingestion's address are
\* what they were before it.
LastWroteNothing ==
    /\ IF last.server_before = <<>> THEN last.addr \notin DOMAIN servers
       ELSE /\ last.addr \in DOMAIN servers
            /\ servers[last.addr] = last.server_before[1]
    /\ snapshots[last.addr] = last.snapshots_before
    /\ sessions[last.addr] = last.sessions_before

\* C11: an ingestion (of a successful or of a failed probe) for an address that the
\* exclusions in force exclude by server_id, or of a successful probe whose gametype is
\* excluded, leaves the server row, the snapshots and the sessions unchanged.
C11_ExclusionHitWritesNothing ==
    (/\ last.kind # "none"
     /\ \/ ExcludedByServerId(last.excl, last.addr[1], last.addr[2])
        \/ LastDropped) => LastWroteNothing

(***************************************************************************)
(* SpecDelay: the workers on one known address, with the query returning   *)
(* every combination of numplayers, roundtimeremain and roundtime that the *)
(* delay policy distinguishes.  Discovery and the refresher have run and   *)
(* sleep.                                                                  *)
(***************************************************************************)
NoField == [k \in {} |-> ""]

\* info with the field when the value is given, without it for NONE
Field(key, value) == IF value = NONE THEN NoField ELSE (key :> value)

DelayInfos ==
    { Field("numplayers", n) @@ Field("roundtimeremain", r) @@ Field("roundtime", t)
        @@ [gametype |-> "conquest", mapname |-> "Wake"] :
        n \in {NONE, "", "x", "0", "16"},
        r \in {NONE, "", "x", "0", "7", "24", "25"},
        t \in {NONE, "7"} }

DelayResults == {[info |-> i, players |-> <<>>] : i \in DelayInfos}

InitDelay ==
    /\ now = 0
    /\ phase = "running"
    /\ known_servers = {ServerIdentifier(StoreAddr[1], StoreAddr[2])}
    /\ queue = Put(EmptyQueue, <<0, StoreAddr[1], StoreAddr[2]>>)
    /\ parked_servers = {}
    /\ exclusions = EmptyExclusions
    /\ pc = [w \in Workers |-> "get"]
    /\ held = [w \in Workers |-> <<>>]
    /\ requeue_at = [w \in Workers |-> 0]
    /\ refresh_at = EXCLUSIONS_REFRESH_S
    /\ poll_at = MASTER_LIST_POLL_INTERVAL_S
    /\ backoff_delay = MASTER_LIST_POLL_INTERVAL_S
    /\ released = {}
    /\ task_state = [t \in TaskNames |-> "pending"]
    /\ closed = <<>>
    /\ query_call = NoCall
    /\ checked_excl = [w \in Workers |-> EmptyExclusions]
    /\ queried_excluded = [a \in Addrs |-> 0]
    /\ refresh_call = NoCall
    /\ fetch_call = NoCall
    /\ InitStoreTables
    /\ servers = <<>>

\* lines 187-211 with the wider results
DelayQueryReturns(w) ==
    /\ pc[w] = "query"
    /\ last.seq < MaxDelayProbes
    /\ \E result \in {<<>>} \cup {<<r>> : r \in DelayResults} :
         /\ Ingest(held[w][2], held[w][3], result, exclusions, now)
         /\ requeue_at' = [requeue_at EXCEPT ![w] = now + NextDelay(result)]
    /\ pc' = [pc EXCEPT ![w] = "ingest"]
    /\ UNCHANGED <<now, phase, known_servers, queue, parked_servers, exclusions,
                   released, held, refresh_at, poll_at, backoff_delay, ops>>
    /\ UNCHANGED <<lifeVars, netVars>>

NextDelayPolicy ==
    \/ \E w \in Workers : Dequeue(w)
    \/ \E w \in Workers : Wake(w)
    \/ \E w \in Workers : DelayQueryReturns(w)
    \/ \E w \in Workers : Requeue(w)
    \/ Tick

SpecDelay == InitDelay /\ [][NextDelayPolicy]_vars

\* int(value) read defensively: missing, empty and non-numeric give 0
ParsedOrZero(info, key) ==
    IF key \in DOMAIN info /\ info[key] \in DOMAIN IntLiteral THEN IntLiteral[info[key]]
    ELSE 0

\* the delay of the policy's table for a success with numplayers n and time remaining r
TableDelay(n, r) ==
    IF n = 0 THEN POLL_INTERVAL_EMPTY_S
    ELSE IF 0 < r /\ r < POLL_INTERVAL_ACTIVE_S + 5 THEN r + 3
    ELSE POLL_INTERVAL_ACTIVE_S

\* the last probe's delay when roundtime is read for r exactly when the given test of
\* the info says so
LastDelayIs(fallback(_)) ==
    \A w \in Workers :
        pc[w] = "ingest" =>
            requeue_at[w] - last.timestamp =
                IF last.kind = "failure" THEN POLL_INTERVAL_OFFLINE_S
                ELSE LET info == last.result[1].info
                     IN  TableDelay(ParsedOrZero(info, "numplayers"),
                                    IF fallback(info) THEN ParsedOrZero(info, "roundtime")
                                    ELSE ParsedOrZero(info, "roundtimeremain"))

RoundtimeremainMissing(info) == "roundtimeremain" \notin DOMAIN info

RoundtimeremainMissingOrEmpty(info) ==
    "roundtimeremain" \notin DOMAIN info \/ info["roundtimeremain"] = ""

\* C12 as stated: the delay after a failure is POLL_INTERVAL_OFFLINE_S; after a success
\* it is the table's delay for numplayers and r, both parsed defensively, where r is
\* roundtime when roundtimeremain is missing and roundtimeremain otherwise.
C12_DelayFallbackWhenMissing == LastDelayIs(RoundtimeremainMissing)

\* C12 amended: the same, where r is roundtime when roundtimeremain is missing or empty.
C12_DelayFallbackWhenMissingOrEmpty == LastDelayIs(RoundtimeremainMissingOrEmpty)

\* The probe numplayers=16, roundtimeremain=7 was re-enqueued 10 s later.
C12_Witness ==
    \E w \in Workers :
        /\ pc[w] = "ingest"
        /\ last.kind = "success"
        /\ Get(last.result[1].info, "numplayers", NONE) = "16"
        /\ Get(last.result[1].info, "roundtimeremain", NONE) = "7"
        /\ requeue_at[w] - last.timestamp = 10

\* C13: a worker starts a query only at or after the due-time of the entry it holds, and
\* a worker that waits for a due-time keeps its entry and does nothing but wait: its
\* next step is the query of that entry.
C13_NoQueryBeforeDueTime ==
    [][\A w \in Workers :
         /\ (pc[w] # "query" /\ pc'[w] = "query") => now' >= held'[w][1]
         /\ pc[w] = "sleep" => /\ held'[w] = held[w]
                               /\ pc'[w] \in {"sleep", "query"}
      ]_vars

\* A worker queries at the due-time of an entry it dequeued before that time.
C13_Witness ==
    \E w \in Workers :
        /\ pc[w] = "query"
        /\ held[w][1] > 0
        /\ now = held[w][1]
        /\ last.seq > 0
        /\ last.timestamp < now

(***************************************************************************)
(* SpecRun: Scheduler.run and main from the creation of the tasks to the   *)
(* end of the process.  One address is seeded.  A store call of a worker   *)
(* may raise, and the supervisor may cancel the run; either ends the first *)
(* gather, and the finally blocks of run and of main follow.               *)
(***************************************************************************)
InitRun ==
    /\ now = 0
    /\ phase = "running"
    /\ known_servers = {ServerIdentifier(StoreAddr[1], StoreAddr[2])}
    /\ queue = Put(EmptyQueue, <<0, StoreAddr[1], StoreAddr[2]>>)
    /\ parked_servers = {}
    /\ exclusions = EmptyExclusions
    /\ pc = [w \in Workers |-> "get"]
    /\ held = [w \in Workers |-> <<>>]
    /\ requeue_at = [w \in Workers |-> 0]
    /\ refresh_at = 0
    /\ poll_at = 0
    /\ backoff_delay = MASTER_LIST_POLL_INTERVAL_S
    /\ released = {}
    /\ task_state = [t \in TaskNames |-> "pending"]
    /\ closed = <<>>
    /\ query_call = NoCall
    /\ checked_excl = [w \in Workers |-> EmptyExclusions]
    /\ queried_excluded = [a \in Addrs |-> 0]
    /\ refresh_call = NoCall
    /\ fetch_call = NoCall
    /\ InitStoreTables
    /\ servers = <<>>

\* A step of a worker's loop, taken while its task has neither finished nor been
\* cancelled.
WorkerStep(w) ==
    /\ task_state[WorkerTask(w)] = "pending"
    /\ phase = "running"
    /\ \/ Dequeue(w)
       \/ Wake(w)
       \/ last.seq < MaxRunProbes /\ QueryReturns(w)
       \/ Requeue(w)

\* scheduler.py 190-191 and 210: the awaited store call raises before it wrote.  The
\* worker has no handler: the exception ends its task.
StoreRaises(w) ==
    /\ task_state[WorkerTask(w)] = "pending"
    /\ phase = "running"
    /\ pc[w] = "query"
    /\ last.seq < MaxRunProbes
    /\ pc' = [pc EXCEPT ![w] = "raised"]
    /\ task_state' = [task_state EXCEPT ![WorkerTask(w)] = "raised"]
    /\ \E result \in {<<>>} \cup {<<r>> : r \in SchedulerResults} :
         last' = Record("error", HeldAddr(w), now, result, exclusions)
    /\ UNCHANGED <<now, phase, known_servers, queue, parked_servers, exclusions, released,
                   held, requeue_at, refresh_at, poll_at, backoff_delay, storeVars, ops,
                   closed, netVars>>

\* for task in tasks: task.cancel()  (a finished task is left as it is)
CancelAll == [t \in TaskNames |-> IF task_state[t] = "pending" THEN "cancelling"
                                  ELSE task_state[t]]

\* lines 229-236: gather re-raises the exception of a task; the finally block cancels
\* the tasks
TaskExceptionEndsGather ==
    /\ phase = "running"
    /\ \E t \in TaskNames : task_state[t] = "raised"
    /\ phase' = "finally"
    /\ task_state' = CancelAll
    /\ UNCHANGED <<now, known_servers, queue, parked_servers, exclusions, released, pc,
                   held, requeue_at, refresh_at, poll_at, backoff_delay, storeVars, last,
                   ops, closed, netVars>>

\* lines 229-236: the supervisor cancels run; gather is cancelled with its tasks, the
\* CancelledError is re-raised and the finally block cancels the tasks
SupervisorCancels ==
    /\ phase = "running"
    /\ phase' = "finally"
    /\ task_state' = CancelAll
    /\ UNCHANGED <<now, known_servers, queue, parked_servers, exclusions, released, pc,
                   held, requeue_at, refresh_at, poll_at, backoff_delay, storeVars, last,
                   ops, closed, netVars>>

\* a cancelled task is resumed with CancelledError, which none of the loops catches
TaskCancelled(t) ==
    /\ task_state[t] = "cancelling"
    /\ task_state' = [task_state EXCEPT ![t] = "cancelled"]
    /\ UNCHANGED <<now, phase, schedVars, exclusions, released, storeVars, last, ops,
                   closed, netVars>>

\* A gather that returns without waiting for its tasks.
GatherDoesNotWait == TRUE

\* await asyncio.gather(*tasks, return_exceptions=True) returns: every task is done
AllTasksDone == \A t \in TaskNames : task_state[t] \in {"raised", "cancelled"}

\* line 237
GatherReturns ==
    /\ phase = "finally"
    /\ AllTasksDone
    /\ phase' = "tasks_done"
    /\ UNCHANGED <<now, known_servers, queue, parked_servers, exclusions, released, pc,
                   held, requeue_at, refresh_at, poll_at, backoff_delay, storeVars, last,
                   ops, lifeVars, netVars>>

\* line 238: await master_list.close_session(); run ends
CloseSession ==
    /\ phase = "tasks_done"
    /\ closed' = Append(closed, "http_session")
    /\ phase' = "run_ended"
    /\ UNCHANGED <<now, known_servers, queue, parked_servers, exclusions, released, pc,
                   held, requeue_at, refresh_at, poll_at, backoff_delay, storeVars, last,
                   ops, task_state, netVars>>

\* main.py 24-26: finally: await db_manager.disconnect()
Disconnect ==
    /\ phase = "run_ended"
    /\ closed' = Append(closed, "db_pool")
    /\ phase' = "shutdown"
    /\ UNCHANGED <<now, known_servers, queue, parked_servers, exclusions, released, pc,
                   held, requeue_at, refresh_at, poll_at, backoff_delay, storeVars, last,
                   ops, task_state, netVars>>

NextRun ==
    \/ UpdateExclusionsCache
    \/ MasterListPoller
    \/ \E w \in Workers : WorkerStep(w)
    \/ \E w \in Workers : StoreRaises(w)
    \/ Tick
    \/ TaskExceptionEndsGather
    \/ SupervisorCancels
    \/ \E t \in TaskNames : TaskCancelled(t)
    \/ GatherReturns
    \/ CloseSession
    \/ Disconnect

SpecRun == InitRun /\ [][NextRun]_vars

\* C14: after a store call of a worker has raised, every task of the scheduler is still
\* pending (the worker keeps running, the scheduler is not brought down) and the address
\* is not lost: it has a queue entry, or a worker whose task is pending holds it, or it
\* is parked.
C14_StoreErrorSurvived ==
    last.kind = "error" =>
        /\ \A t \in TaskNames : task_state[t] = "pending"
        /\ phase = "running"
        /\ \/ EntryCount(queue, last.addr) > 0
           \/ \E w \in Holders(last.addr) : task_state[WorkerTask(w)] = "pending"
           \/ last.addr \in parked_servers

ClosedSet == {closed[i] : i \in DOMAIN closed}

\* C19: once the run has left its first gather (cancelled by the supervisor, or because
\* a task raised) no task is left uncancelled; the HTTP session is closed only when every
\* task has finished; the database pool is closed only after the session, as the last
\* resource; and a run that has ended has closed both, in that order.
C19_ShutdownOrder ==
    /\ phase \in {"finally", "tasks_done", "run_ended", "shutdown"} =>
         \A t \in TaskNames : task_state[t] # "pending"
    /\ "http_session" \in ClosedSet =>
         \A t \in TaskNames : task_state[t] \in {"raised", "cancelled"}
    /\ "db_pool" \in ClosedSet => closed = <<"http_session", "db_pool">>
    /\ phase = "run_ended" => closed = <<"http_session">>
    /\ phase = "shutdown" => closed = <<"http_session", "db_pool">>

\* The process has ended after a worker raised: that worker's task finished with the
\* exception, every other task was cancelled, and both resources are closed.
C19_Witness ==
    /\ phase = "shutdown"
    /\ \E w \in Workers : task_state[WorkerTask(w)] = "raised"
    /\ \A t \in SingletonTasks : task_state[t] = "cancelled"
    /\ closed = <<"http_session", "db_pool">>

(***************************************************************************)
(* server_querier.py                                                       *)
(***************************************************************************)
MaxQueryProbes == 2

\* line 20
standard_query_port == 23000

\* What one GameSpy1 attempt can do: return a status, or raise an error of the
\* transport or of the protocol (all of them subclasses of Exception).
AttemptErrors == {"TimeoutError", "ConnectionRefusedError"}

AttemptOutcomes ==
    {[ok |-> TRUE, status |-> r] : r \in SchedulerResults}
        \cup {[ok |-> FALSE, error |-> e] : e \in AttemptErrors}

\* lines 17 and 35: "except Exception" catches every error an attempt raises
CaughtByExcept(error) == error \in AttemptErrors

\* line 21 as it would be if the fallback were tried for every port
FallbackAlways(port) == TRUE

\* line 21
FallbackAllowed(port) == port # standard_query_port

\* lines 10-61: primary is what the attempt on (ip, port) does, fallback what the attempt
\* on (ip, 23000) does if it is made; the value lists the attempts made and how the call
\* ends: ret is TRUE when it returns (result is then <<status>> or <<>> for None) and
\* FALSE when an exception leaves it.
QueryServer(ip, port, primary, fallback) ==
    LET first == <<[host |-> ip, port |-> port]>>
        second == Append(first, [host |-> ip, port |-> standard_query_port])
    IN  IF primary.ok
          THEN [attempts |-> first, ret |-> TRUE, result |-> <<primary.status>>]
        ELSE IF ~CaughtByExcept(primary.error)
          THEN [attempts |-> first, ret |-> FALSE, result |-> <<>>]
        ELSE IF FallbackAllowed(port)
          THEN IF fallback.ok
                 THEN [attempts |-> second, ret |-> TRUE, result |-> <<fallback.status>>]
               ELSE IF ~CaughtByExcept(fallback.error)
                 THEN [attempts |-> second, ret |-> FALSE, result |-> <<>>]
               ELSE [attempts |-> second, ret |-> TRUE, result |-> <<>>]
        ELSE [attempts |-> first, ret |-> TRUE, result |-> <<>>]

\* Both servers of Addrs are known and due at once: one is on the standard query port
\* and one is not.
InitQuery ==
    /\ now = 0
    /\ phase = "running"
    /\ known_servers = {ServerIdentifier(a[1], a[2]) : a \in Addrs}
    /\ queue = [e \in {<<0, a[1], a[2]>> : a \in Addrs} |-> 1]
    /\ parked_servers = {}
    /\ exclusions = EmptyExclusions
    /\ pc = [w \in Workers |-> "get"]
    /\ held = [w \in Workers |-> <<>>]
    /\ requeue_at = [w \in Workers |-> 0]
    /\ refresh_at = EXCLUSIONS_REFRESH_S
    /\ poll_at = MASTER_LIST_POLL_INTERVAL_S
    /\ backoff_delay = MASTER_LIST_POLL_INTERVAL_S
    /\ released = {}
    /\ task_state = [t \in TaskNames |-> "pending"]
    /\ closed = <<>>
    /\ query_call = NoCall
    /\ checked_excl = [w \in Workers |-> EmptyExclusions]
    /\ queried_excluded = [a \in Addrs |-> 0]
    /\ refresh_call = NoCall
    /\ fetch_call = NoCall
    /\ InitStoreTables
    /\ servers = <<>>

\* scheduler.py lines 187-211 with the call of query_server spelled out: the worker
\* gets what query_server returns; an exception leaving query_server would end the
\* worker's task
QueryServerReturns(w) ==
    /\ pc[w] = "query"
    /\ last.seq < MaxQueryProbes
    /\ \E primary \in AttemptOutcomes, fallback \in AttemptOutcomes :
         LET q == QueryServer(held[w][2], held[w][3], primary, fallback)
         IN  /\ query_call' = [made |-> TRUE, ip |-> held[w][2], port |-> held[w][3],
                               primary |-> primary, fallback |-> fallback,
                               attempts |-> q.attempts, ret |-> q.ret,
                               result |-> q.result]
             /\ IF q.ret
                  THEN /\ Ingest(held[w][2], held[w][3], q.result, exclusions, now)
                       /\ requeue_at' =
                              [requeue_at EXCEPT ![w] = now + NextDelay(q.result)]
                       /\ pc' = [pc EXCEPT ![w] = "ingest"]
                       /\ UNCHANGED task_state
                  ELSE /\ pc' = [pc EXCEPT ![w] = "raised"]
                       /\ task_state' = [task_state EXCEPT ![WorkerTask(w)] = "raised"]
                       /\ UNCHANGED <<requeue_at, storeVars, last>>
    /\ UNCHANGED <<now, phase, known_servers, queue, parked_servers, exclusions,
                   released, held, refresh_at, poll_at, backoff_delay, ops, closed,
                   fetch_call, refresh_call, checked_excl, queried_excluded>>

NextQuery ==
    \/ \E w \in Workers : Dequeue(w)
    \/ \E w \in Workers : Wake(w)
    \/ \E w \in Workers : QueryServerReturns(w)
    \/ \E w \in Workers : Requeue(w)
    \/ Tick

SpecQuery == InitQuery /\ [][NextQuery]_vars

\* C15: a call of query_server makes one or two attempts, the first on the server's own
\* (ip, port); the second is made only after the first failed and the port is not 23000,
\* and goes to (ip, 23000); the call returns the status of the first attempt that
\* succeeded, None when every attempt made failed, and never ends with an exception.
C15_QueryServerAttempts ==
    query_call.made =>
        LET c == query_call
            n == Len(c.attempts)
        IN  /\ n \in {1, 2}
            /\ c.attempts[1] = [host |-> c.ip, port |-> c.port]
            /\ n = 2 <=> (~c.primary.ok /\ c.port # 23000)
            /\ n = 2 => c.attempts[2] = [host |-> c.ip, port |-> 23000]
            /\ c.ret
            /\ c.primary.ok => c.result = <<c.primary.status>>
            /\ (n = 2 /\ c.fallback.ok) => c.result = <<c.fallback.status>>
            /\ (n = 1 /\ ~c.primary.ok) => c.result = <<>>
            /\ (n = 2 /\ ~c.fallback.ok) => c.result = <<>>
            /\ \A w \in Workers : pc[w] # "raised"

\* query_server has been called for both servers' kinds of port: a call whose primary
\* attempt failed on a port other than 23000 made a second attempt that succeeded, and
\* the worker ingested that status.
C15_Witness ==
    /\ query_call.made
    /\ query_call.port # 23000
    /\ ~query_call.primary.ok
    /\ Len(query_call.attempts) = 2
    /\ query_call.fallback.ok
    /\ query_call.result = <<query_call.fallback.status>>
    /\ last.kind = "success"
    /\ last.result = query_call.result

\* A call on the standard query port whose only attempt failed returned None.
C15_WitnessStandardPort ==
    /\ query_call.made
    /\ query_call.port = 23000
    /\ ~query_call.primary.ok
    /\ Len(query_call.attempts) = 1
    /\ query_call.result = <<>>

(***************************************************************************)
(* master_list.py, and SpecDiscovery: the discovery loop alone, given the  *)
(* responses of the master server.                                         *)
(***************************************************************************)
MaxFetches == 5     \* fetches the discovery loop makes: enough to reach the backoff cap twice

\* JSON values as response.json() yields them
JsonNum(n) == [t |-> "num", v |-> n]
JsonStr(s) == [t |-> "str", v |-> s]
JsonList(items) == [t |-> "list", v |-> items]

\* int(value) for a value of the JSON body: raises gives TRUE where int() raises
\* ValueError (a string that is no number)
PortLiteral == ("14567" :> 14567) @@ ("23000" :> 23000)

IntRaises(value) == value.t # "num" /\ ~(value.t = "str" /\ value.v \in DOMAIN PortLiteral)

IntOf(value) == IF value.t = "num" THEN value.v ELSE PortLiteral[value.v]

\* Entries of the master list: two well-formed ones (a port as a number and a port as a
\* string of digits) and three malformed ones.
EntryNumberPort == JsonList(<<JsonStr("10.0.0.1"), JsonNum(14567)>>)
EntryStringPort == JsonList(<<JsonStr("10.0.0.2"), JsonStr("23000")>>)
EntryNotArray == JsonStr("10.0.0.1:14567")
EntryWrongArity == JsonList(<<JsonStr("10.0.0.1")>>)
EntryBadPort == JsonList(<<JsonStr("10.0.0.1"), JsonStr("abc")>>)

Entries == {EntryNumberPort, EntryStringPort, EntryNotArray, EntryWrongArity, EntryBadPort}

\* What session.get gives: a transport error, an HTTP error status (raise_for_status
\* raises), or a 200 response whose JSON body is an array of up to two entries.
Responses ==
    {[kind |-> "transport_error"], [kind |-> "http_error"]}
        \cup {[kind |-> "ok", data |-> d] :
                d \in {<<>>} \cup {<<e>> : e \in Entries}
                        \cup {<<e, f>> : e \in Entries, f \in Entries}}

\* line 26: isinstance(item, list) and len(item) == 2
Selected(item) == item.t = "list" /\ Len(item.v) = 2

\* line 26: (item[0], int(item[1])) raises for a selected item whose port is no number
ItemRaises(item) == IntRaises(item.v[2])

\* lines 20-30: <<>> is None, <<list>> the list returned
FetchServers(response) ==
    IF response.kind # "ok" THEN <<>>
    ELSE LET data == response.data
             chosen == SelectSeq(data, Selected)
         IN  IF \E i \in DOMAIN chosen : ItemRaises(chosen[i])
               THEN <<>>
             ELSE << [i \in DOMAIN chosen |->
                        <<chosen[i].v[1].v, IntOf(chosen[i].v[2])>>] >>

InitDiscovery ==
    /\ now = 0
    /\ phase = "running"
    /\ known_servers = {}
    /\ queue = EmptyQueue
    /\ parked_servers = {}
    /\ exclusions = EmptyExclusions
    /\ pc = [w \in Workers |-> "get"]
    /\ held = [w \in Workers |-> <<>>]
    /\ requeue_at = [w \in Workers |-> 0]
    /\ refresh_at = EXCLUSIONS_REFRESH_S
    /\ poll_at = 0
    /\ backoff_delay = MASTER_LIST_POLL_INTERVAL_S
    /\ released = {}
    /\ task_state = [t \in TaskNames |-> "pending"]
    /\ closed = <<>>
    /\ query_call = NoCall
    /\ checked_excl = [w \in Workers |-> EmptyExclusions]
    /\ queried_excluded = [a \in Addrs |-> 0]
    /\ refresh_call = NoCall
    /\ fetch_call = [made |-> FALSE, seq |-> 0]
    /\ InitStoreTables
    /\ servers = <<>>

\* scheduler.py lines 137-170 with the call of fetch_servers spelled out
FetchAndAdmit ==
    /\ phase = "running"
    /\ now >= poll_at
    /\ fetch_call.seq < MaxFetches
    /\ \E response \in Responses :
         LET fetched == FetchServers(response)
         IN  /\ fetch_call' = [made |-> TRUE, seq |-> fetch_call.seq + 1, at |-> now,
                               response |-> response, result |-> fetched]
             /\ IF fetched = <<>>
                  THEN /\ backoff_delay' = NextBackoff(backoff_delay)
                       /\ poll_at' = now + backoff_delay'
                       /\ UNCHANGED <<known_servers, parked_servers, queue>>
                  ELSE /\ backoff_delay' = MASTER_LIST_POLL_INTERVAL_S
                       /\ poll_at' = now + MASTER_LIST_POLL_INTERVAL_S
                       /\ Admit(NewServers(CurrentServerIds(fetched[1])))
    /\ UNCHANGED <<now, phase, exclusions, released, pc, held, requeue_at, refresh_at,
                   storeVars, last, ops, lifeVars, query_call,
                   refresh_call, checked_excl, queried_excluded>>

\* lines 146, 152 and 170: the poller's sleep ends
PollerSleepEnds ==
    /\ phase = "running"
    /\ now < poll_at
    /\ now' = poll_at
    /\ UNCHANGED <<schedVars, exclusions, released, storeVars, last, ops, lifeVars,
                   netVars>>

NextDiscovery ==
    \/ FetchAndAdmit
    \/ PollerSleepEnds

SpecDiscovery == InitDiscovery /\ [][NextDiscovery]_vars

\* The wait the discovery loop has begun, and the wait it made before the last fetch
\* (the base interval when there was no failed fetch before it).
FetchFailed == fetch_call.made /\ fetch_call.result = <<>>

CurrentWait == poll_at - fetch_call.at

\* C16: the wait after a failed fetch is twice the wait that preceded the fetch, or
\* MASTER_LIST_MAX_BACKOFF_S when that is less; the preceding wait counts as the base
\* interval at the start and after a successful fetch, and the wait after a successful
\* fetch (an empty list included) is the base interval; no wait exceeds the maximum.
C16_BackoffDoublesAndResets ==
    [][ fetch_call'.seq # fetch_call.seq =>
          LET before == IF FetchFailed THEN CurrentWait ELSE MASTER_LIST_POLL_INTERVAL_S
              after == poll_at' - now
          IN  /\ after <= MASTER_LIST_MAX_BACKOFF_S
              /\ IF fetch_call'.result = <<>>
                   THEN /\ after = IF 2 * before <= MASTER_LIST_MAX_BACKOFF_S
                                     THEN 2 * before ELSE MASTER_LIST_MAX_BACKOFF_S
                        /\ after >= before
                   ELSE after = MASTER_LIST_POLL_INTERVAL_S ]_vars

\* A third consecutive failure has been capped: the wait is the maximum and less than
\* twice the wait before it.
C16_Witness ==
    /\ FetchFailed
    /\ fetch_call.seq >= 3
    /\ CurrentWait = MASTER_LIST_MAX_BACKOFF_S
    /\ backoff_delay = MASTER_LIST_MAX_BACKOFF_S

\* An empty list has reset the wait after earlier fetches had failed (the waits before
\* it add up to more than as many base intervals).
C16_WitnessReset ==
    /\ fetch_call.made
    /\ fetch_call.seq = MaxFetches
    /\ fetch_call.result = << <<>> >>
    /\ now > (MaxFetches - 1) * MASTER_LIST_POLL_INTERVAL_S
    /\ CurrentWait = MASTER_LIST_POLL_INTERVAL_S

\* An entry of the master list is well-formed when it is an array of two elements whose
\* second is a number or a string of digits.
WellFormed(item) ==
    /\ item.t = "list"
    /\ Len(item.v) = 2
    /\ \/ item.v[2].t = "num"
       \/ item.v[2].t = "str" /\ item.v[2].v \in {"14567", "23000"}

AddressOf(item) ==
    <<item.v[1].v, IF item.v[2].t = "num" THEN item.v[2].v
                   ELSE IF item.v[2].v = "14567" THEN 14567 ELSE 23000>>

\* C17: a fetch that got a 200 response with a JSON array returns the list of its
\* well-formed entries (malformed ones dropped, the list possibly empty) and is followed
\* by the base interval, not by a backoff; a fetch that met a transport or HTTP error
\* returns None.
C17_MalformedEntriesDropped ==
    fetch_call.made =>
        IF fetch_call.response.kind = "ok"
          THEN LET kept == SelectSeq(fetch_call.response.data, WellFormed)
               IN  /\ fetch_call.result = << [i \in DOMAIN kept |-> AddressOf(kept[i])] >>
                   /\ poll_at = fetch_call.at + MASTER_LIST_POLL_INTERVAL_S
          ELSE fetch_call.result = <<>>

\* The same for the responses whose malformed entries are not arrays or have the wrong
\* number of elements: these are dropped and the rest is returned.
C17_NonArrayAndArityDropped ==
    (/\ fetch_call.made
     /\ fetch_call.response.kind = "ok"
     /\ \A i \in DOMAIN fetch_call.response.data :
            fetch_call.response.data[i] # EntryBadPort) =>
        LET kept == SelectSeq(fetch_call.response.data, WellFormed)
        IN  /\ fetch_call.result = << [i \in DOMAIN kept |-> AddressOf(kept[i])] >>
            /\ poll_at = fetch_call.at + MASTER_LIST_POLL_INTERVAL_S

\* The last ingestion was of a successful probe, and the successful probe ingested
\* before it (failed probes may lie between them) was of the same server, had the same
\* info and players, and was ingested under the same exclusions.
LastRepeatsSuccess ==
    /\ last.kind = "success"
    /\ last.success_before # <<>>
    /\ last.success_before[1].addr = last.addr
    /\ last.success_before[1].result = last.result
    /\ last.success_before[1].excl = last.excl

\* C18: ingesting a successful probe identical to the preceding successful probe of the
\* server, under the same exclusions, leaves the server's session rows as they were: no
\* row is added and no leave_ts is set.
C18_IdenticalProbeKeepsSessions ==
    LastRepeatsSuccess => sessions[last.addr] = last.sessions_before

\* An accepted probe with a named player has been repeated while that player's session
\* was open.
C18_Witness ==
    /\ LastRepeatsSuccess
    /\ LastAccepted
    /\ LastNames # {}
    /\ OpenBefore # {}
    /\ sessions[last.addr] = last.sessions_before

\* The repetition came after failed probes had closed the sessions: none is re-opened.
C18_WitnessAfterFailures ==
    /\ LastRepeatsSuccess
    /\ LastAccepted
    /\ LastNames # {}
    /\ last.server_before # <<>>
    /\ last.server_before[1].consecutive_failures >= OFFLINE_FAILURE_THRESHOLD
    /\ OpenBefore = {}
    /\ OpenSessions(last.addr) = {}

(***************************************************************************)
(* SpecReload: the exclusions cache loop over several reloads, with the    *)
(* workers and the store reading the exclusions between them; both servers *)
(* have been discovered and are due.                                       *)
(***************************************************************************)
MaxReloads == 3         \* reloads the cache loop makes (at 0, 300 and 600 s)
MaxReloadTime == 600    \* the clock stops here
MaxReloadProbes == 2    \* probes the workers complete

\* The contents of the table that a reload of this specification may find: tables
\* that differ in all three types of row.
ReloadTables == {{}, {RowServer, RowGametype}, {RowPlayer}}

InitReload ==
    /\ now = 0
    /\ phase = "running"
    /\ known_servers = {ServerIdentifier(a[1], a[2]) : a \in Addrs}
    /\ queue = [e \in {<<0, a[1], a[2]>> : a \in Addrs} |-> 1]
    /\ parked_servers = {}
    /\ exclusions = EmptyExclusions
    /\ pc = [w \in Workers |-> "get"]
    /\ held = [w \in Workers |-> <<>>]
    /\ requeue_at = [w \in Workers |-> 0]
    /\ refresh_at = 0
    /\ poll_at = MASTER_LIST_POLL_INTERVAL_S
    /\ backoff_delay = MASTER_LIST_POLL_INTERVAL_S
    /\ released = {}
    /\ task_state = [t \in TaskNames |-> "pending"]
    /\ closed = <<>>
    /\ query_call = NoCall
    /\ checked_excl = [w \in Workers |-> EmptyExclusions]
    /\ queried_excluded = [a \in Addrs |-> 0]
    /\ fetch_call = NoCall
    /\ refresh_call = [made |-> FALSE, seq |-> 0, rows |-> <<>>,
                       released_at |-> [a \in Addrs |-> -1]]
    /\ InitStoreTables
    /\ servers = <<>>

\* lines 76-83: one turn of the cache loop; rows keeps the rows of the last reload that
\* succeeded, released_at the time each address was last released (-1: never)
ReloadCache ==
    /\ phase = "running"
    /\ now >= refresh_at
    /\ refresh_call.seq < MaxReloads
    /\ refresh_at' = now + EXCLUSIONS_REFRESH_S
    /\ \/ \E rows \in ReloadTables :
            /\ RefreshExclusions(rows)
            /\ refresh_call' = [made |-> TRUE, seq |-> refresh_call.seq + 1, at |-> now,
                                ok |-> TRUE, rows |-> <<rows>>,
                                released_at |->
                                    [a \in Addrs |-> IF a \in released' THEN now
                                                     ELSE refresh_call.released_at[a]]]
       \/ /\ RefreshExclusionsFails
          /\ refresh_call' = [made |-> TRUE, seq |-> refresh_call.seq + 1, at |-> now,
                              ok |-> FALSE, rows |-> refresh_call.rows,
                              released_at |-> refresh_call.released_at]
    /\ queried_excluded' =
           [a \in Addrs |->
               IF /\ ExcludedByServerId(exclusions', a[1], a[2])
                  /\ ~ExcludedByServerId(exclusions, a[1], a[2])
               THEN 0 ELSE queried_excluded[a]]
    /\ UNCHANGED <<now, phase, known_servers, pc, held, requeue_at, poll_at,
                   backoff_delay, storeVars, last, ops, lifeVars, query_call,
                   fetch_call, checked_excl>>

\* lines 187-211, for the probes of this specification
ReloadQueryReturns(w) ==
    /\ pc[w] = "query"
    /\ last.seq < MaxReloadProbes
    /\ \E result \in {<<>>} \cup {<<r>> : r \in SchedulerResults} :
         /\ Ingest(held[w][2], held[w][3], result, exclusions, now)
         /\ requeue_at' = [requeue_at EXCEPT ![w] = now + NextDelay(result)]
    /\ pc' = [pc EXCEPT ![w] = "ingest"]
    /\ UNCHANGED <<now, phase, known_servers, queue, parked_servers, exclusions,
                   released, held, refresh_at, poll_at, backoff_delay, ops>>
    /\ queried_excluded' =
           IF ExcludedByServerId(exclusions, held[w][2], held[w][3])
           THEN [queried_excluded EXCEPT ![HeldAddr(w)] = @ + 1]
           ELSE queried_excluded
    /\ UNCHANGED <<lifeVars, callVars, checked_excl>>

\* time passes to the next moment a sleeping worker or the cache loop is due
ReloadWakeTimes ==
    {held[w][1] : w \in {v \in Workers : pc[v] = "sleep"}} \cup {refresh_at}

ReloadTick ==
    /\ phase = "running"
    /\ \A t \in ReloadWakeTimes : t > now
    /\ now' = Min(ReloadWakeTimes)
    /\ now' <= MaxReloadTime
    /\ UNCHANGED <<schedVars, exclusions, released, storeVars, last, ops>>
    /\ UNCHANGED <<lifeVars, netVars>>

NextReload ==
    \/ ReloadCache
    \/ \E w \in Workers : Dequeue(w)
    \/ \E w \in Workers : Wake(w)
    \/ \E w \in Workers : ReloadQueryReturns(w)
    \/ \E w \in Workers : Requeue(w)
    \/ ReloadTick

SpecReload == InitReload /\ [][NextReload]_vars

\* The three sets that one reload of the given rows yields, each from the rows of its
\* type (a server_id row with both generated columns yields its pair and its string).
WholeOf(rows) ==
    [gametype |-> {r.value : r \in {x \in rows : x.type = "gametype"}},
     player_name |-> {r.value : r \in {x \in rows : x.type = "player_name"}},
     server_id |-> UNION {{PyTuple(r.server_ip, r.server_port[1]), PyStr(r.value)} :
                            r \in {x \in rows : x.type = "server_id"}}]

\* The exclusions a reader must find: those of the last reload that succeeded, or the
\* empty ones of the constructor when none has.
ExpectedExclusions ==
    IF refresh_call.rows = <<>> THEN EmptyExclusions ELSE WholeOf(refresh_call.rows[1])

\* C20: in every state (so whenever a worker, the discovery loop or the store reads
\* them) the three sets of the exclusions are those of one and the same reload, the last
\* that succeeded, and the exclusions given to the store at an ingestion were such a
\* whole; a reload that fails leaves the exclusions, the parked set and the queue as they
\* were; and after every reload, failed or not, the next one is due 300 s later.
C20_ExclusionsReplacedWhole ==
    [][ /\ exclusions' = ExpectedExclusions'
        /\ last'.excl \in {EmptyExclusions} \cup {WholeOf(rows) : rows \in ReloadTables}
        /\ refresh_call'.seq # refresh_call.seq =>
             /\ refresh_at' = now + EXCLUSIONS_REFRESH_S
             /\ ~refresh_call'.ok =>
                  /\ exclusions' = exclusions
                  /\ parked_servers' = parked_servers
                  /\ queue' = queue ]_vars

\* The reload at 300 s has failed after the first one had excluded a server that was
\* then parked: the exclusions and the parked set are still those, and the next reload
\* is due at 600 s.
C20_Witness ==
    /\ refresh_call.made
    /\ refresh_call.seq = 2
    /\ ~refresh_call.ok
    /\ refresh_call.at = EXCLUSIONS_REFRESH_S
    /\ refresh_call.rows = <<{RowServer, RowGametype}>>
    /\ exclusions = WholeOf({RowServer, RowGametype})
    /\ parked_servers = {<<"10.0.0.1", 14567>>}
    /\ refresh_at = 2 * EXCLUSIONS_REFRESH_S

\* A later reload has replaced all three sets at once, and the store was given the new
\* exclusions at an ingestion.
C20_WitnessReplaced ==
    /\ refresh_call.made
    /\ refresh_call.seq = 2
    /\ refresh_call.ok
    /\ refresh_call.rows = <<{RowPlayer}>>
    /\ exclusions = WholeOf({RowPlayer})
    /\ last.kind = "success"
    /\ last.excl = exclusions
    /\ last.timestamp >= EXCLUSIONS_REFRESH_S

\* C21: the exclusions a worker passes to the store with the result of a successful
\* probe are the exclusions it checked the address against when it dequeued the entry
\* of that probe, whatever reloads happened while it slept or queried.
C21_OneSnapshotPerProbe ==
    [][ \A w \in Workers :
          (pc[w] = "query" /\ pc'[w] = "ingest" /\ last'.kind = "success") =>
              last'.excl = checked_excl[w] ]_vars

\* The number of copies of an entry in a queue.
Copies(q, e) == IF e \in DOMAIN q THEN q[e] ELSE 0

\* C22: an address is queried at most once between the reload that excludes it by
\* server_id and its parking; that query is made by a worker that had dequeued the entry
\* before the exclusion (its dequeue check did not find the address excluded); a reload
\* removes no entry from the queue; and a worker that dequeues the entry of an excluded
\* address parks it and no query begins.
C22_AtMostOneSpuriousQuery ==
    [][ /\ \A a \in Addrs : queried_excluded'[a] <= 1
        /\ \A w \in Workers :
             (/\ pc[w] = "query"
              /\ pc'[w] = "ingest"
              /\ ExcludedByServerId(exclusions, held[w][2], held[w][3])) =>
                 ~ExcludedByServerId(checked_excl[w], held[w][2], held[w][3])
        /\ refresh_call'.seq # refresh_call.seq =>
             \A e \in DOMAIN queue : Copies(queue', e) >= queue[e]
        /\ \A e \in DOMAIN queue :
             (/\ Copies(queue', e) < queue[e]
              /\ ExcludedByServerId(exclusions, e[2], e[3])) =>
                 /\ <<e[2], e[3]>> \in parked_servers'
                 /\ pc' = pc ]_vars

\* An address was excluded while a worker held its entry: it was queried once more,
\* its entry was put back, and the worker that dequeued it then parked it.
C22_Witness ==
    /\ \E a \in Addrs :
         /\ queried_excluded[a] = 1
         /\ a \in parked_servers
         /\ ExcludedByServerId(exclusions, a[1], a[2])
         /\ EntryCount(queue, a) = 0
         /\ Holders(a) = {}

\* The normalized names of the session rows a step closed, and of the rows it added.
ClosedNow(a) ==
    {sessions[a][i].player_name_norm :
        i \in {j \in DOMAIN sessions[a] :
                 sessions[a][j].leave_ts = NULL /\ sessions'[a][j].leave_ts # NULL}}

OpenedNow(a) ==
    {sessions'[a][i].player_name_norm : i \in DOMAIN sessions'[a] \ DOMAIN sessions[a]}

\* C23: in every step, for every server, no session row is removed; a row whose leave_ts
\* is set is left as it is (never changed, cleared or reopened); an open row changes at
\* most in its leave_ts; every row the step adds is open (the closes of a diff do not
\* reach the rows it opens); and no name is both closed and opened by the step.
C23_ClosedSessionsStayClosed ==
    [][ \A a \in Addrs :
          /\ Len(sessions'[a]) >= Len(sessions[a])
          /\ \A i \in DOMAIN sessions[a] :
               /\ sessions[a][i].leave_ts # NULL => sessions'[a][i] = sessions[a][i]
               /\ sessions'[a][i] =
                      [sessions[a][i] EXCEPT !.leave_ts = sessions'[a][i].leave_ts]
          /\ \A i \in DOMAIN sessions'[a] \ DOMAIN sessions[a] :
               sessions'[a][i].leave_ts = NULL
          /\ ClosedNow(a) \cap OpenedNow(a) = {} ]_vars

\* A player who left and came back has a closed row and a later, open row.
C23_Witness ==
    \E a \in Addrs : \E i, j \in DOMAIN sessions[a] :
        /\ i < j
        /\ sessions[a][i].player_name_norm = sessions[a][j].player_name_norm
        /\ sessions[a][i].leave_ts # NULL
        /\ sessions[a][j].leave_ts = NULL
        /\ sessions[a][j].join_ts > sessions[a][i].leave_ts[1]

\* The step is an ingestion (of a successful or of a failed probe) for the address.
IngestionOf(a) == last'.seq # last.seq /\ last'.addr = a

\* C24: a server row is never removed; first_seen is the time of the ingestion that
\* creates the row and never changes; last_seen never decreases; an accepted success
\* leaves status online; a failure on an existing row adds one to consecutive_failures
\* and sets status offline when the new count is at or above OFFLINE_FAILURE_THRESHOLD,
\* leaving status as it was below it; a row created by a failure is offline with
\* consecutive_failures 1.
C24_ServerRowFields ==
    [][ \A a \in Addrs :
          /\ a \in DOMAIN servers =>
               /\ a \in DOMAIN servers'
               /\ servers'[a].first_seen = servers[a].first_seen
               /\ servers'[a].last_seen >= servers[a].last_seen
          /\ (a \notin DOMAIN servers /\ a \in DOMAIN servers') =>
               /\ IngestionOf(a)
               /\ servers'[a].first_seen = last'.timestamp
               /\ servers'[a].last_seen = last'.timestamp
          /\ (IngestionOf(a) /\ LastAccepted') => servers'[a].status = "online"
          /\ (IngestionOf(a) /\ last'.kind = "failure") =>
               IF a \in DOMAIN servers
               THEN /\ servers'[a].consecutive_failures =
                           servers[a].consecutive_failures + 1
                    /\ servers'[a].status =
                           IF servers'[a].consecutive_failures >= OFFLINE_FAILURE_THRESHOLD
                           THEN "offline" ELSE servers[a].status
               ELSE /\ servers'[a].status = "offline"
                    /\ servers'[a].consecutive_failures = 1 ]_vars

\* A server that was online has failed fewer times than the threshold and is still
\* online, seen later than first seen.
C24_Witness ==
    /\ last.kind = "failure"
    /\ last.server_before # <<>>
    /\ last.server_before[1].status = "online"
    /\ servers[last.addr].status = "online"
    /\ servers[last.addr].consecutive_failures \in 1..(OFFLINE_FAILURE_THRESHOLD - 1)
    /\ servers[last.addr].last_seen > servers[last.addr].first_seen

\* A server that was online has reached the threshold and is offline.
C24_WitnessOffline ==
    /\ last.kind = "failure"
    /\ last.server_before # <<>>
    /\ last.server_before[1].status = "online"
    /\ servers[last.addr].status = "offline"
    /\ servers[last.addr].consecutive_failures = OFFLINE_FAILURE_THRESHOLD

\* A row created by a failure has become online by an accepted success and kept its
\* first_seen.
C24_WitnessCreatedByFailure ==
    /\ LastAccepted
    /\ last.server_before # <<>>
    /\ last.server_before[1].status = "offline"
    /\ last.server_before[1].info = NULL
    /\ servers[last.addr].status = "online"
    /\ servers[last.addr].first_seen < last.timestamp

(***************************************************************************)
(* SpecCrash: the store of SpecStore when a success ingestion can stop at  *)
(* its last write, and the process is started again on the same database.  *)
(***************************************************************************)
\* process_server_success up to line 116: the upsert, the map and the session update
\* are done (each statement is committed on its own); the INSERT of the snapshot at
\* lines 125-128 raises.  The exception ends the worker's task and with it the run.
StoreIngestStops ==
    /\ pc[1] = "query"
    /\ ops < MaxOps
    /\ ops' = ops + 1
    /\ now' = now + StoreGap
    /\ \E r \in ProbeResults :
         LET a == StoreAddr
             normalized_data == NormalizedData(r, exclusions)
             mapname == normalized_data.mapname
         IN  /\ ~SuccessDropped(a[1], a[2], r, exclusions)
             /\ \E previous_snapshot \in PreviousSnapshot(snapshots[a]) :
                  /\ ~SnapshotUnchanged(previous_snapshot, normalized_data, RawPayload(r))
                  /\ sessions' = [sessions EXCEPT ![a] =
                        UpdatePlayerSessions(sessions[a], PreviousPlayers(previous_snapshot),
                                             normalized_data.players, now')]
             /\ servers' = UpsertServerSuccess(a, r, exclusions, now')
             /\ unique_maps' = IF mapname # "n/a" THEN unique_maps \cup {mapname}
                               ELSE unique_maps
             /\ last' = Record("stopped", a, now', <<r>>, exclusions)
    /\ pc' = [pc EXCEPT ![1] = "raised"]
    /\ task_state' = [task_state EXCEPT ![WorkerTask(1)] = "raised"]
    /\ phase' = "stopped"
    /\ UNCHANGED <<known_servers, queue, parked_servers, exclusions, released, held,
                   requeue_at, refresh_at, poll_at, backoff_delay, snapshots, closed,
                   netVars>>

\* main.py: the program is run again; the scheduler is constructed anew and the
\* database is as the stopped process left it
Restart ==
    /\ phase = "stopped"
    /\ phase' = "running"
    /\ known_servers' = {}
    /\ queue' = EmptyQueue
    /\ parked_servers' = {}
    /\ exclusions' = EmptyExclusions
    /\ pc' = [w \in Workers |-> "get"]
    /\ held' = [w \in Workers |-> <<>>]
    /\ requeue_at' = [w \in Workers |-> 0]
    /\ refresh_at' = 0
    /\ poll_at' = 0
    /\ backoff_delay' = MASTER_LIST_POLL_INTERVAL_S
    /\ released' = {}
    /\ task_state' = [t \in TaskNames |-> "pending"]
    /\ closed' = <<>>
    /\ checked_excl' = [w \in Workers |-> EmptyExclusions]
    /\ UNCHANGED <<now, storeVars, last, ops, callVars, queried_excluded>>

NextCrash ==
    \/ phase = "running" /\ StoreRefresh
    \/ phase = "running" /\ StoreDequeue
    \/ phase = "running" /\ StoreIngest
    \/ phase = "running" /\ StoreIngestStops
    \/ Restart

SpecCrash == InitStore /\ [][NextCrash]_vars

\* C25: also when a success ingestion stopped between the session update and the
\* snapshot insert, no player has two open sessions at a server after the probes that
\* follow.
C25_NoSecondOpenSession ==
    \A a \in Addrs : \A n \in OpenNames(a) :
        Cardinality({i \in OpenSessions(a) : sessions[a][i].player_name_norm = n}) <= 1

(***************************************************************************)
(* SpecSingle: the scheduler of Spec run with one worker (WORKER_COUNT=1): *)
(* only worker-0 is created.                                               *)
(***************************************************************************)
SingleWorker == {1}

NextSingle ==
    \/ SeedRefresh
    \/ SeedLoad
    \/ UpdateExclusionsCache
    \/ MasterListPoller
    \/ \E w \in SingleWorker : Dequeue(w)
    \/ \E w \in SingleWorker : Wake(w)
    \/ \E w \in SingleWorker : QueryReturns(w)
    \/ \E w \in SingleWorker : Requeue(w)
    \/ Tick

SpecSingle == Init /\ [][NextSingle]_vars

\* An entry of the queue whose due-time has arrived.
DueEntries == {e \in DOMAIN queue : e[1] <= now}

\* C26: with one worker, an entry whose due-time has arrived never sits in the queue
\* while the worker does nothing but sleep toward the later due-time of the entry it
\* holds.
C26_SleeperDoesNotBlockDispatch ==
    ~(/\ DueEntries # {}
      /\ \A w \in SingleWorker : pc[w] = "sleep" /\ held[w][1] > now)

\* The normalized names in the player list of the server's most recent snapshot (none
\* when the server has no snapshot).
LatestSnapshotNames(a) ==
    IF snapshots[a] = <<>> THEN {}
    ELSE LET top == Max({snapshots[a][i].timestamp : i \in DOMAIN snapshots[a]})
             row == snapshots[a][Max({i \in DOMAIN snapshots[a] :
                                         snapshots[a][i].timestamp = top})]
             players == row.data.players
         IN  {Lower(players[i].name) : i \in {j \in DOMAIN players : players[j].name # ""}}

\* C28: between ingestions, every open session of a server is for a name in the player
\* list of the server's most recent snapshot.
C28_OpenSessionsInLatestSnapshot ==
    \A a \in Addrs : OpenNames(a) \subseteq LatestSnapshotNames(a)

\* Sessions are open for the players of the latest snapshot, which is not the first
\* one and was written after an earlier player list had been replaced.
C28_Witness ==
    \E a \in Addrs :
        /\ Len(snapshots[a]) >= 2
        /\ OpenNames(a) # {}
        /\ OpenNames(a) = LatestSnapshotNames(a)
        /\ \E i \in DOMAIN sessions[a] : sessions[a][i].leave_ts # NULL

\* The failure threshold has closed every open session of a server with a snapshot
\* that lists players.
C28_WitnessThresholdClose ==
    /\ last.kind = "failure"
    /\ LastFailures >= OFFLINE_FAILURE_THRESHOLD
    /\ OpenBefore # {}
    /\ OpenSessions(last.addr) = {}
    /\ LatestSnapshotNames(last.addr) # {}

\* A worker begins the query of the address of the most recent probe; PolicyDue is the
\* due-time the delay policy computed when that probe completed.
BeginsQueryOfLast(w) ==
    /\ pc[w] # "query"
    /\ pc'[w] = "query"
    /\ last.kind \in {"success", "failure"}
    /\ <<held'[w][2], held'[w][3]>> = last.addr

PolicyDue == last.timestamp + NextDelay(last.result)

\* C29 as claimed: an address is never queried before the due-time the delay policy
\* computed at its previous probe, whether or not it was parked and released since.
C29_NoQueryBeforePolicyDue ==
    [][ \A w \in Workers : BeginsQueryOfLast(w) => now >= PolicyDue ]_vars

\* C29: an address is never queried before the due-time of the entry the worker holds,
\* which is the due-time the delay policy computed at its previous probe unless a reload
\* released the address from the parked set since that probe: then it is the time of
\* that reload, which can be earlier.
C29_NoQueryBeforePolicyDueOrRelease ==
    [][ \A w \in Workers : BeginsQueryOfLast(w) =>
          /\ now >= held'[w][1]
          /\ \/ held'[w][1] = PolicyDue
             \/ /\ held'[w][1] = refresh_call.released_at[last.addr]
                /\ held'[w][1] >= last.timestamp ]_vars

\* A server whose probe failed was parked, released by the reload at 300 s, and is being
\* queried before POLL_INTERVAL_OFFLINE_S has elapsed since the failure.
C29_Witness ==
    /\ last.kind = "failure"
    /\ \E w \in Workers :
         /\ pc[w] = "query"
         /\ HeldAddr(w) = last.addr
         /\ held[w][1] = refresh_call.released_at[last.addr]
         /\ held[w][1] = EXCLUSIONS_REFRESH_S
         /\ now < last.timestamp + POLL_INTERVAL_OFFLINE_S

\* A server is being queried again at the due-time the policy computed at its last
\* probe, without having been released.
C29_WitnessPolicyDue ==
    /\ last.kind = "success"
    /\ \E w \in Workers :
         /\ pc[w] = "query"
         /\ HeldAddr(w) = last.addr
         /\ held[w][1] = PolicyDue
         /\ now = PolicyDue
         /\ refresh_call.released_at[last.addr] = -1

(***************************************************************************)
(* SpecLive: the scheduler with one worker and a clock that does not stop, *)
(* for progress.                                                           *)
(* The scheduler's code reads times only through differences with          *)
(* time.time(), so a state is kept up to a shift of the time origin: now   *)
(* stays 0 and the passing of d seconds lowers every pending time by d.    *)
(* A step that is ready runs before time passes (the event loop runs every *)
(* ready task; a query returns within its timeouts and a store call        *)
(* returns).  The store call's writes are not read by the scheduler and    *)
(* are left out, which keeps the states finite.                            *)
(***************************************************************************)
\* The results the progress runs draw from: a failed query and an empty server,
\* whose delays are multiples of the period of discovery.
LiveResults == {<<>>, <<[info |-> InfoEmpty, players |-> <<>>]>>}

\* lines 187-211 with a query and a store call that return: the delay is computed
LiveQueryReturns(w) ==
    /\ pc[w] = "query"
    /\ \E result \in LiveResults :
         requeue_at' = [requeue_at EXCEPT ![w] = now + NextDelay(result)]
    /\ pc' = [pc EXCEPT ![w] = "ingest"]
    /\ UNCHANGED <<now, phase, known_servers, queue, parked_servers, exclusions,
                   released, held, refresh_at, poll_at, backoff_delay, storeVars,
                   last, ops>>
    /\ UNCHANGED <<lifeVars, netVars>>

\* the times the sleeping tasks wake at
LiveWakeTimes ==
    {held[w][1] : w \in {v \in SingleWorker : pc[v] = "sleep"}} \cup {refresh_at, poll_at}

\* a step of a task that is ready at the current time
LiveReady ==
    \/ phase # "running"
    \/ now >= refresh_at
    \/ now >= poll_at
    \/ \E w \in SingleWorker : \/ (pc[w] = "get" /\ DOMAIN queue # {})
                                \/ (pc[w] = "sleep" /\ now >= held[w][1])
                                \/ pc[w] \in {"query", "ingest"}

\* the queue d seconds later, seen from the new time origin
ShiftQueue(q, d) ==
    [e \in {<<x[1] - d, x[2], x[3]>> : x \in DOMAIN q} |-> q[<<e[1] + d, e[2], e[3]>>]]

\* asyncio.sleep: time passes up to the next wake-up
LiveTick ==
    /\ ~LiveReady
    /\ LET d == Min(LiveWakeTimes) - now
       IN  /\ queue' = ShiftQueue(queue, d)
           /\ held' = [w \in Workers |->
                         IF held[w] = <<>> THEN <<>>
                         ELSE <<held[w][1] - d, held[w][2], held[w][3]>>]
           /\ refresh_at' = refresh_at - d
           /\ poll_at' = poll_at - d
    /\ requeue_at' = [w \in Workers |-> 0]
    /\ UNCHANGED <<now, phase, known_servers, parked_servers, exclusions, released,
                   pc, backoff_delay, storeVars, last, ops>>
    /\ UNCHANGED <<lifeVars, netVars>>

\* a discovery pass whose fetch returns a list
LiveMasterListPoller ==
    /\ MasterListPoller
    /\ backoff_delay' = MASTER_LIST_POLL_INTERVAL_S

NextLive ==
    \/ SeedRefresh
    \/ SeedLoad
    \/ UpdateExclusionsCache
    \/ LiveMasterListPoller
    \/ \E w \in SingleWorker : Dequeue(w)
    \/ \E w \in SingleWorker : Wake(w)
    \/ \E w \in SingleWorker : LiveQueryReturns(w)
    \/ \E w \in SingleWorker : Requeue(w)
    \/ LiveTick

\* Every task of run() that is ready is run in the end, and time passes.
SpecLive ==
    /\ Init
    /\ [][NextLive]_vars
    /\ \A w \in SingleWorker :
          WF_vars(Dequeue(w) \/ Wake(w) \/ LiveQueryReturns(w) \/ Requeue(w))
    /\ WF_vars(SeedRefresh \/ SeedLoad)
    /\ WF_vars(UpdateExclusionsCache)
    /\ WF_vars(LiveMasterListPoller)
    /\ WF_vars(LiveTick)

Known(a) == ServerIdentifier(a[1], a[2]) \in known_servers

Querying(a) == \E w \in SingleWorker : pc[w] = "query" /\ HeldAddr(w) = a

Queued(a) == EntryCount(queue, a) > 0

\* C27: under fair scheduling, with queries and store calls that return, a known
\* server that is never excluded is queried infinitely often: from every state
\* where it is known a query of it begins later, and every query of it is
\* followed by its return to the queue (from where the next one begins).
C27_NeverExcludedQueriedForever ==
    \A a \in Addrs :
        ([]~IsServerExcluded(a[1], a[2]))
            => ((Known(a) ~> Querying(a)) /\ (Querying(a) ~> Queued(a)))

\* A query of a never-excluded server begins after time has passed, while the other
\* server is parked and both loops are between two passes.
C27_Witness ==
    /\ Querying(<<"10.0.0.2", 23000>>)
    /\ <<"10.0.0.1", 14567>> \in parked_servers
    /\ poll_at < MASTER_LIST_POLL_INTERVAL_S
    /\ refresh_at < EXCLUSIONS_REFRESH_S

\* A query begins late: the entry waited while the worker slept on another one.
C27_WitnessLate ==
    \E w \in SingleWorker : pc[w] = "query" /\ held[w][1] < 0

====
